---- MODULE Spec2Model ----
(***************************************************************************)
(* Model of REDstack's orchestration core.                                 *)
(*                                                                         *)
(*   SpecRetry    helper_functions.retry driven by an arbitrary operation  *)
(*   SpecOst      Openstack.build / _cleanup_existing_resources against a  *)
(*                Heat / Neutron / Nova / Cinder project                   *)
(*   SpecAmbari   Ambari.install and its request monitor                   *)
(*                                                                         *)
(*   SpecChef     Chef.converge threads and the install.py coordinator     *)
(*   SpecRebuild  Openstack.rebuild and its _rebuild_server threads        *)
(*   SpecCluster  Cluster roster: template, build / rebuild populate,      *)
(*                JSON snapshot and reload                                 *)
(*   SpecFip      Openstack._delete_floating_ips                           *)
(*   SpecPhases   the two coordinators that wait for their tasks,          *)
(*                converge() and rebuild(), side by side                   *)
(*                                                                         *)
(* Each specification leaves the variables of the other parts at their     *)
(* idle values.                                                            *)
(***************************************************************************)
EXTENDS Integers, Sequences, FiniteSets, TLC

\* ------------------------------------------------------------------ bounds
MaxTries == 3
MaxFips == 2
MaxServers == 1
MaxVolumes == 1
MaxInitStacks == 2
MaxCleanupRuns == 2
MaxPolls == 3
MaxNodes == 2
MaxChefTries == 2
MaxExecs == 3
MaxThreads == 2
ClockStep == 240
MaxClock == 720
MaxCount == 2
MaxLate == 1

None == "None"

(***************************************************************************)
(* helper_functions.retry                                                  *)
(***************************************************************************)
VARIABLES tries, exceptions, retry_i, retry_pc, history, sleeps, retry_out

retryVars == <<tries, exceptions, retry_i, retry_pc, history, sleeps, retry_out>>

\* Exception classes an operation may raise, and the values it may return.
ErrorKinds == {"ConnectFailure", "KeyError", "AmbariException"}
Messages == {"m1", "m2"}
Results == {"v1", "v2", None}

\* One invocation of func: a returned value or a raised exception object.
FuncOutcomes ==
    [ok : {TRUE}, val : Results, kind : {None}, msg : {None}]
    \cup [ok : {FALSE}, val : {None}, kind : ErrorKinds, msg : Messages]

\* A retry that takes every error for a retryable one.
Caught_any(e, excs) == TRUE

\* `except exceptions`: the raised object is an instance of a listed class;
\* every kind is a subclass of Exception.
Caught(e, excs) == e.kind \in excs \/ "Exception" \in excs

RetryIdle ==
    /\ tries = 0
    /\ exceptions = {}
    /\ retry_i = 0
    /\ retry_pc = "idle"
    /\ history = <<>>
    /\ sleeps = 0
    /\ retry_out = [type |-> None]

RetryInit ==
    /\ tries \in -1..MaxTries
    /\ exceptions \in SUBSET (ErrorKinds \cup {"Exception"})
    /\ retry_i = 0
    /\ retry_pc = "loop"
    /\ history = <<>>
    /\ sleeps = 0
    /\ retry_out = [type |-> None]

\* A retry whose last try swallows the error instead of re-raising it.
RetryHandle_swallow(o) ==
    IF o.ok
    THEN /\ retry_pc' = "returned"
         /\ retry_out' = [type |-> "return", val |-> o.val]
    ELSE IF Caught(o, exceptions)
    THEN /\ retry_pc' = "sleep"
         /\ retry_out' = retry_out
    ELSE /\ retry_pc' = "raised"
         /\ retry_out' = [type |-> "raise", kind |-> o.kind, msg |-> o.msg, attempt |-> retry_i + 1]

\* The handling of an outcome of func on try retry_i (lines 65-71).
RetryHandle(o) ==
    IF o.ok
    THEN /\ retry_pc' = "returned"
         /\ retry_out' = [type |-> "return", val |-> o.val]
    ELSE IF Caught(o, exceptions)
    THEN IF retry_i = tries - 1
         THEN /\ retry_pc' = "raised"
              /\ retry_out' = [type |-> "raise", kind |-> o.kind, msg |-> o.msg, attempt |-> retry_i + 1]
         ELSE /\ retry_pc' = "sleep"
              /\ retry_out' = retry_out
    ELSE /\ retry_pc' = "raised"
         /\ retry_out' = [type |-> "raise", kind |-> o.kind, msg |-> o.msg, attempt |-> retry_i + 1]

\* One pass of the for loop body: invoke func, then return, re-raise or fall
\* to the sleep.
RetryCall ==
    /\ retry_pc = "loop"
    /\ retry_i < tries
    /\ \E o \in FuncOutcomes :
          /\ history' = Append(history, o)
          /\ RetryHandle(o)
    /\ UNCHANGED <<tries, exceptions, retry_i, sleeps>>

\* time.sleep(5) and the next value of i.
RetrySleep ==
    /\ retry_pc = "sleep"
    /\ sleeps' = sleeps + 1
    /\ retry_i' = retry_i + 1
    /\ retry_pc' = "loop"
    /\ UNCHANGED <<tries, exceptions, history, retry_out>>

\* A retry that raises when it has no try to make.
RetryFallThrough_raises ==
    /\ retry_pc = "loop"
    /\ retry_i >= tries
    /\ retry_pc' = "raised"
    /\ retry_out' = [type |-> "raise", kind |-> "ValueError", msg |-> "tries", attempt |-> 0]
    /\ UNCHANGED <<tries, exceptions, retry_i, history, sleeps>>

\* range(tries) is exhausted without a return or a raise: the function ends
\* and yields None.
RetryFallThrough ==
    /\ retry_pc = "loop"
    /\ retry_i >= tries
    /\ retry_pc' = "returned"
    /\ retry_out' = [type |-> "return", val |-> None]
    /\ UNCHANGED <<tries, exceptions, retry_i, history, sleeps>>

(***************************************************************************)
(* Openstack.build and Openstack._cleanup_existing_resources               *)
(***************************************************************************)
VARIABLES deploy_stack_name, stacks, floatingips, servers, volumes,
          ost_pc, cleanup_from, stack_list, destroy_i, delete_i, check_i,
          uid, stack, del_stack, thread_exception, ost_raised,
          delete_calls, cleanup_runs

project == <<stacks, floatingips, servers, volumes>>
ostLocals == <<cleanup_from, stack_list, destroy_i, delete_i, check_i, uid, stack, del_stack>>
ostVars == <<deploy_stack_name, project, ost_pc, ostLocals, thread_exception,
             ost_raised, delete_calls, cleanup_runs>>

\* self.retries of Openstack, and the tries of the destroy step.
ost_retries == 5
destroy_tries == 3

\* Stack names of the project and values of deploy.stack_name in the
\* configuration file; str.lower() on them.
StackNames == {"rs", "RS", "other"}
ConfigNames == {"rs", "RS"}
Lower(n) == IF n = "RS" THEN "rs" ELSE n

CreateReasons == {"quota exceeded"}
DeleteReasons == {"delete failed"}

NoStack == [stack_status |-> None, stack_status_reason |-> None]
NoError == [kind |-> None, msg |-> None]

\* The stacks of the project as kept by Heat: the index is the stack id.
InitStacks ==
    {s \in UNION {[1..n -> [stack_name : StackNames,
                            stack_status : {"CREATE_COMPLETE"},
                            stack_status_reason : {None}]] : n \in 0..MaxInitStacks} :
        \A a, b \in DOMAIN s : a # b => s[a].stack_name # s[b].stack_name}

\* heat.stacks.list(): the ids of the stacks that are not deleted, in order.
GetHeatStacks == SelectSeq([k \in 1..Len(stacks) |-> k],
                           LAMBDA k : stacks[k].stack_status # "DELETE_COMPLETE")

\* heat.stacks.get(stack_id).to_dict(), reduced to the fields that are read.
GetStack(id) == [stack_status |-> stacks[id].stack_status,
                 stack_status_reason |-> stacks[id].stack_status_reason]

SetStatus(id, status, reason) ==
    [stacks EXCEPT ![id].stack_status = status, ![id].stack_status_reason = reason]

OstIdle ==
    /\ deploy_stack_name = None
    /\ stacks = <<>>
    /\ floatingips = {}
    /\ servers = 0
    /\ volumes = 0
    /\ ost_pc = "idle"
    /\ cleanup_from = None
    /\ stack_list = <<>>
    /\ destroy_i = 0
    /\ delete_i = 0
    /\ check_i = 0
    /\ uid = 0
    /\ stack = NoStack
    /\ del_stack = NoStack
    /\ thread_exception = FALSE
    /\ ost_raised = NoError
    /\ delete_calls = {}
    /\ cleanup_runs = 0

\* An Openstack object on a project in any state, about to run build() or
\* to have _cleanup_existing_resources() called on it directly.
OstInit ==
    /\ deploy_stack_name \in ConfigNames
    /\ stacks \in InitStacks
    /\ floatingips \in SUBSET (1..MaxFips)
    /\ servers \in 0..MaxServers
    /\ volumes \in 0..MaxVolumes
    /\ ost_pc \in {"build", "harness"}
    /\ cleanup_from = None
    /\ stack_list = <<>>
    /\ destroy_i = 0
    /\ delete_i = 0
    /\ check_i = 0
    /\ uid = 0
    /\ stack = NoStack
    /\ del_stack = NoStack
    /\ thread_exception = FALSE
    /\ ost_raised = NoError
    /\ delete_calls = {}
    /\ cleanup_runs = 0

OstRaise(kind, msg) ==
    /\ ost_pc' = "raised"
    /\ ost_raised' = [kind |-> kind, msg |-> msg]

\* build() up to its call of _cleanup_existing_resources (lines 145-153).
BuildStart ==
    /\ ost_pc = "build"
    /\ ost_pc' = "c_list"
    /\ cleanup_from' = "build"
    /\ UNCHANGED <<deploy_stack_name, project, stack_list, destroy_i, delete_i, check_i,
                   uid, stack, del_stack, thread_exception, ost_raised, delete_calls,
                   cleanup_runs>>

\* A direct call of _cleanup_existing_resources, repeated after it returned.
HarnessCleanup ==
    /\ ost_pc = "harness"
    /\ cleanup_runs < MaxCleanupRuns
    /\ ost_pc' = "c_list"
    /\ cleanup_from' = "harness"
    /\ UNCHANGED <<deploy_stack_name, project, stack_list, destroy_i, delete_i, check_i,
                   uid, stack, del_stack, thread_exception, ost_raised, delete_calls,
                   cleanup_runs>>

\* The stack listing and the branch on it (lines 300-308).
CleanupList ==
    /\ ost_pc = "c_list"
    /\ stack_list' = GetHeatStacks
    /\ IF Len(stack_list') > 1
       THEN /\ OstRaise("ExistingNonRedstackResourcesException", "Non-Redstack resources exist")
            /\ UNCHANGED <<destroy_i, check_i>>
       ELSE IF Len(stack_list') = 1
               /\ Lower(stacks[stack_list'[1]].stack_name) = deploy_stack_name
       THEN /\ ost_pc' = "d_fips"
            /\ destroy_i' = 0
            /\ UNCHANGED <<ost_raised, check_i>>
       ELSE /\ ost_pc' = "c_check"
            /\ check_i' = 0
            /\ UNCHANGED <<ost_raised, destroy_i>>
    /\ UNCHANGED <<deploy_stack_name, project, cleanup_from, delete_i, uid, stack,
                   del_stack, thread_exception, delete_calls, cleanup_runs>>

\* _delete_floating_ip_list on every floating IP of the project: one task
\* per IP, each ending deleted, not found (taken as deleted) or in another
\* error, which sets thread_exception and makes the waiting loop leave the
\* process with os._exit(1) (lines 341, 359-405).
DestroyDeleteFips ==
    /\ ost_pc = "d_fips"
    /\ \E out \in [floatingips -> {"deleted", "notfound", "error"}] :
          /\ delete_calls' = delete_calls \cup {<<"floatingip", ip>> : ip \in floatingips}
          /\ floatingips' = {ip \in floatingips : out[ip] = "error"}
          /\ thread_exception' = (thread_exception \/ \E ip \in floatingips : out[ip] = "error")
          /\ ost_pc' = IF thread_exception' THEN "exited" ELSE "d_delete"
    /\ delete_i' = 0
    /\ UNCHANGED <<deploy_stack_name, stacks, servers, volumes, cleanup_from, stack_list,
                   destroy_i, check_i, uid, stack, del_stack, ost_raised, cleanup_runs>>

\* One try of retry(self.heat.stacks.delete, self.retries, Exception, id)
\* (line 344): Heat accepts the delete, or the call raises and is tried
\* again until the budget is spent.
DestroyDelete ==
    /\ ost_pc = "d_delete"
    /\ delete_calls' = delete_calls \cup {<<"stack", stack_list[1]>>}
    /\ \E accepted \in BOOLEAN :
          IF accepted
          THEN /\ stacks' = SetStatus(stack_list[1], "DELETE_IN_PROGRESS", None)
               /\ ost_pc' = "d_get"
               /\ UNCHANGED <<delete_i, ost_raised>>
          ELSE IF delete_i = ost_retries - 1
          THEN /\ OstRaise("ConnectFailure", "stacks.delete")
               /\ UNCHANGED <<stacks, delete_i>>
          ELSE /\ delete_i' = delete_i + 1
               /\ UNCHANGED <<stacks, ost_pc, ost_raised>>
    /\ UNCHANGED <<deploy_stack_name, floatingips, servers, volumes, cleanup_from,
                   stack_list, destroy_i, check_i, uid, stack, del_stack,
                   thread_exception, cleanup_runs>>

\* A poll that takes every status but DELETE_IN_PROGRESS for the end of a
\* successful delete.
DestroyGet_any_end ==
    /\ ost_pc = "d_get"
    /\ del_stack' = GetStack(stack_list[1])
    /\ IF del_stack'.stack_status = "DELETE_IN_PROGRESS"
       THEN /\ ost_pc' = "d_sleep"
            /\ UNCHANGED <<destroy_i, check_i, ost_raised>>
       ELSE /\ ost_pc' = "c_check"
            /\ check_i' = 0
            /\ UNCHANGED <<destroy_i, ost_raised>>
    /\ UNCHANGED <<deploy_stack_name, project, cleanup_from, stack_list, delete_i, uid,
                   stack, thread_exception, delete_calls, cleanup_runs>>

\* A poll of the deleted stack and what follows it (lines 346-357, and the
\* retry of the destroy step of line 308 around it).
DestroyGet ==
    /\ ost_pc = "d_get"
    /\ del_stack' = GetStack(stack_list[1])
    /\ IF del_stack'.stack_status = "DELETE_IN_PROGRESS"
       THEN /\ ost_pc' = "d_sleep"
            /\ UNCHANGED <<destroy_i, check_i, ost_raised>>
       ELSE IF del_stack'.stack_status = "DELETE_COMPLETE"
       THEN /\ ost_pc' = "c_check"
            /\ check_i' = 0
            /\ UNCHANGED <<destroy_i, ost_raised>>
       ELSE IF destroy_i = destroy_tries - 1
       THEN /\ OstRaise("HeatException",
                        <<"Reason for stack status", del_stack'.stack_status_reason>>)
            /\ UNCHANGED <<destroy_i, check_i>>
       ELSE /\ destroy_i' = destroy_i + 1
            /\ ost_pc' = "d_fips"
            /\ UNCHANGED <<check_i, ost_raised>>
    /\ UNCHANGED <<deploy_stack_name, project, cleanup_from, stack_list, delete_i, uid,
                   stack, thread_exception, delete_calls, cleanup_runs>>

\* time.sleep(self.sleep) of the delete polling (line 349).
DestroySleep ==
    /\ ost_pc = "d_sleep"
    /\ ost_pc' = "d_get"
    /\ UNCHANGED <<deploy_stack_name, project, ostLocals, thread_exception, ost_raised,
                   delete_calls, cleanup_runs>>

\* A check loop whose first comparison is inverted.
ProjectClear_inverted == floatingips # {} /\ servers = 0 /\ volumes = 0

\* The three listings of one pass of the check loop.  The project only loses
\* resources while cleanup runs, so the three reads are taken together.
ProjectClear == floatingips = {} /\ servers = 0 /\ volumes = 0

\* A check loop that gives up one pass early.
LastCheck_early(i) == i = ost_retries - 2

\* The test of the last pass (line 317).
LastCheck(i) == i = ost_retries - 1

\* One pass of the check loop, and the return of cleanup to its caller
\* (lines 311-326; lines 153 and 285-287 for the callers).
CleanupCheck ==
    /\ ost_pc = "c_check"
    /\ IF ProjectClear
       THEN /\ CASE cleanup_from = "build" ->
                       /\ ost_pc' = "b_create"
                       /\ UNCHANGED <<ost_raised, cleanup_runs>>
                 [] cleanup_from = "failed" ->
                       /\ OstRaise("HeatException", stack.stack_status_reason)
                       /\ UNCHANGED cleanup_runs
                 [] OTHER ->
                       /\ ost_pc' = "harness"
                       /\ cleanup_runs' = cleanup_runs + 1
                       /\ UNCHANGED ost_raised
            /\ UNCHANGED check_i
       ELSE IF LastCheck(check_i)
       THEN /\ OstRaise("ExistingNonRedstackResourcesException",
                        <<"Non-Redstack resources exist", floatingips, servers, volumes>>)
            /\ UNCHANGED <<check_i, cleanup_runs>>
       ELSE /\ check_i' = check_i + 1
            /\ UNCHANGED <<ost_pc, ost_raised, cleanup_runs>>
    /\ UNCHANGED <<deploy_stack_name, project, cleanup_from, stack_list, destroy_i,
                   delete_i, uid, stack, del_stack, thread_exception, delete_calls>>

\* The template is generated and the stack created (lines 156-175, 265-270).
\* Heat refuses a second stack of the same name.
BuildCreate ==
    /\ ost_pc = "b_create"
    /\ IF \E k \in 1..Len(stacks) : /\ stacks[k].stack_status # "DELETE_COMPLETE"
                                    /\ stacks[k].stack_name = deploy_stack_name
       THEN /\ OstRaise("HTTPConflict", "stacks.create")
            /\ UNCHANGED <<stacks, uid>>
       ELSE /\ stacks' = Append(stacks, [stack_name |-> deploy_stack_name,
                                         stack_status |-> "CREATE_IN_PROGRESS",
                                         stack_status_reason |-> None])
            /\ uid' = Len(stacks) + 1
            /\ ost_pc' = "b_get"
            /\ UNCHANGED ost_raised
    /\ UNCHANGED <<deploy_stack_name, floatingips, servers, volumes, cleanup_from,
                   stack_list, destroy_i, delete_i, check_i, stack, del_stack,
                   thread_exception, delete_calls, cleanup_runs>>

\* A poll of the created stack and the branch on its status (lines 271-287).
\* A status that is neither in progress, complete nor failed leaves the
\* function at its end: it returns None to build().
BuildGet ==
    /\ ost_pc = "b_get"
    /\ stack' = GetStack(uid)
    /\ ost_pc' = CASE stack'.stack_status = "CREATE_IN_PROGRESS" -> "b_sleep"
                   [] stack'.stack_status = "CREATE_COMPLETE" -> "b_populate"
                   [] stack'.stack_status = "CREATE_FAILED" -> "b_failed"
                   [] OTHER -> "b_populate"
    /\ UNCHANGED <<deploy_stack_name, project, cleanup_from, stack_list, destroy_i,
                   delete_i, check_i, uid, del_stack, thread_exception, ost_raised,
                   delete_calls, cleanup_runs>>

\* time.sleep(self.sleep) of the create polling (lines 274-275).
BuildSleep ==
    /\ ost_pc = "b_sleep"
    /\ ost_pc' = "b_get"
    /\ UNCHANGED <<deploy_stack_name, project, ostLocals, thread_exception, ost_raised,
                   delete_calls, cleanup_runs>>

\* The failure branch: cleanup when a stack is listed, then the error
\* (lines 281-287).
BuildFailed ==
    /\ ost_pc = "b_failed"
    /\ IF Len(GetHeatStacks) > 0
       THEN /\ ost_pc' = "c_list"
            /\ cleanup_from' = "failed"
            /\ UNCHANGED ost_raised
       ELSE /\ OstRaise("HeatException", stack.stack_status_reason)
            /\ UNCHANGED cleanup_from
    /\ UNCHANGED <<deploy_stack_name, project, stack_list, destroy_i, delete_i, check_i,
                   uid, stack, del_stack, thread_exception, delete_calls, cleanup_runs>>

\* build() after _build_stack_from_template returned (line 178).
BuildPopulate ==
    /\ ost_pc = "b_populate"
    /\ ost_pc' = "done"
    /\ UNCHANGED <<deploy_stack_name, project, ostLocals, thread_exception, ost_raised,
                   delete_calls, cleanup_runs>>

\* --- the project's services, as seen through the polls of the code

\* Heat works on a stack that is being created: it adds a resource, or the
\* creation ends.
HeatCreateStep ==
    /\ \E id \in 1..Len(stacks) :
          /\ stacks[id].stack_status = "CREATE_IN_PROGRESS"
          /\ \/ /\ \E ip \in (1..MaxFips) \ floatingips : floatingips' = floatingips \cup {ip}
                /\ UNCHANGED <<stacks, servers, volumes>>
             \/ /\ servers < MaxServers
                /\ servers' = servers + 1
                /\ UNCHANGED <<stacks, floatingips, volumes>>
             \/ /\ volumes < MaxVolumes
                /\ volumes' = volumes + 1
                /\ UNCHANGED <<stacks, floatingips, servers>>
             \/ /\ stacks' = SetStatus(id, "CREATE_COMPLETE", None)
                /\ UNCHANGED <<floatingips, servers, volumes>>
             \/ /\ \E r \in CreateReasons : stacks' = SetStatus(id, "CREATE_FAILED", r)
                /\ UNCHANGED <<floatingips, servers, volumes>>
             \/ /\ stacks' = SetStatus(id, "ROLLBACK_IN_PROGRESS", None)
                /\ UNCHANGED <<floatingips, servers, volumes>>
    /\ UNCHANGED <<deploy_stack_name, ost_pc, ostLocals, thread_exception, ost_raised,
                   delete_calls, cleanup_runs>>

\* Heat ends the deletion of a stack.
HeatDeleteStep ==
    /\ \E id \in 1..Len(stacks) :
          /\ stacks[id].stack_status = "DELETE_IN_PROGRESS"
          /\ \/ stacks' = SetStatus(id, "DELETE_COMPLETE", None)
             \/ \E r \in DeleteReasons : stacks' = SetStatus(id, "DELETE_FAILED", r)
    /\ UNCHANGED <<deploy_stack_name, floatingips, servers, volumes, ost_pc, ostLocals,
                   thread_exception, ost_raised, delete_calls, cleanup_runs>>

\* A resource of a stack under deletion disappears from the listings.
HeatReap ==
    /\ \E id \in 1..Len(stacks) :
          stacks[id].stack_status \in {"DELETE_IN_PROGRESS", "DELETE_COMPLETE", "DELETE_FAILED"}
    /\ \/ /\ \E ip \in floatingips : floatingips' = floatingips \ {ip}
          /\ UNCHANGED <<servers, volumes>>
       \/ /\ servers > 0
          /\ servers' = servers - 1
          /\ UNCHANGED <<floatingips, volumes>>
       \/ /\ volumes > 0
          /\ volumes' = volumes - 1
          /\ UNCHANGED <<floatingips, servers>>
    /\ UNCHANGED <<deploy_stack_name, stacks, ost_pc, ostLocals, thread_exception,
                   ost_raised, delete_calls, cleanup_runs>>

(***************************************************************************)
(* Ambari.install                                                          *)
(***************************************************************************)
VARIABLES define_custom_repos, ambari_pc, blueprint_i, hostmap_i, passwd_i,
          monitor_i, response_dict, response, polls, gets, ambari_log,
          ambari_raised, last_request, hostmap_posts

ambariVars == <<define_custom_repos, ambari_pc, blueprint_i, hostmap_i, passwd_i,
                monitor_i, response_dict, response, polls, gets, ambari_log,
                ambari_raised, last_request, hostmap_posts>>

\* self.retries of Ambari, and the tries of the blueprint POST.
ambari_retries == 5
blueprint_tries == 40

\* A retry set that also lists the install error.
ambari_retry_exceptions_all ==
    {"ConnectionError", "Timeout", "KeyError", "ValueError", "JSONDecodeError",
     "AmbariException"}

\* self.retry_exceptions of Ambari.
ambari_retry_exceptions ==
    {"ConnectionError", "Timeout", "KeyError", "ValueError", "JSONDecodeError"}

\* What a request to the Ambari API ends in: a JSON body, a body that is not
\* JSON (the method returns None), a status >= 400, or a transport error.
HttpOutcomes == {"ok", "NoJson", "HttpError", "ConnectionError", "Timeout"}

\* The exception a failed _get, _post or _put raises.
HttpException(out) == IF out = "HttpError" THEN "AmbariException" ELSE out

RequestStatuses == {"TIMEDOUT", "COMPLETED", "PENDING", "IN_PROGRESS", "FAILED", "ABORTED"}
Percents == {40, 94, 95, 96}

NoResponse == [request_status |-> None, progress_percent |-> 0]

\* Bodies of the tracked request: the two fields, or a body without them.
GetBodies == [request_status : RequestStatuses, progress_percent : Percents]

\* The last request sent to the API and what it ended in.
NoRequest == [req |-> None, out |-> None]

AmbariIdle ==
    /\ define_custom_repos = FALSE
    /\ ambari_pc = "idle"
    /\ blueprint_i = 0
    /\ hostmap_i = 0
    /\ passwd_i = 0
    /\ monitor_i = 0
    /\ response_dict = None
    /\ response = NoResponse
    /\ polls = 0
    /\ gets = 0
    /\ ambari_log = {}
    /\ ambari_raised = [kind |-> None, msg |-> None, at |-> None]
    /\ last_request = NoRequest
    /\ hostmap_posts = [sent |-> 0, accepted |-> 0]

AmbariInit ==
    /\ define_custom_repos \in BOOLEAN
    /\ ambari_pc = "install"
    /\ blueprint_i = 0
    /\ hostmap_i = 0
    /\ passwd_i = 0
    /\ monitor_i = 0
    /\ response_dict = None
    /\ response = NoResponse
    /\ polls = 0
    /\ gets = 0
    /\ ambari_log = {}
    /\ ambari_raised = [kind |-> None, msg |-> None, at |-> None]
    /\ last_request = NoRequest
    /\ hostmap_posts = [sent |-> 0, accepted |-> 0]

AmbariRaise(kind, msg) ==
    /\ ambari_raised' = [kind |-> kind, msg |-> msg, at |-> ambari_pc]
    /\ ambari_pc' = "raised"

\* One try of retry(call, tries, self.retry_exceptions) around a _post or a
\* _put with outcome out, on try index i: go to `next` when the call
\* returned (the index ends with the call), stay for another try, or raise.
AmbariRetried(out, i, tries_, next) ==
    IF out \in {"ok", "NoJson"}
    THEN /\ ambari_pc' = next
         /\ i' = 0
         /\ UNCHANGED ambari_raised
    ELSE IF HttpException(out) \in ambari_retry_exceptions /\ i # tries_ - 1
    THEN /\ i' = i + 1
         /\ UNCHANGED <<ambari_pc, ambari_raised>>
    ELSE /\ AmbariRaise(HttpException(out), out)
         /\ i' = i

\* An install() that sends the repository definitions whatever the flag.
InstallStart_always_repos ==
    /\ ambari_pc = "install"
    /\ ambari_pc' = "put_stack"
    /\ UNCHANGED <<define_custom_repos, blueprint_i, hostmap_i, passwd_i, monitor_i,
                   response_dict, response, polls, gets, ambari_log, ambari_raised,
                   last_request,
                   hostmap_posts>>

\* install() up to the branch on define_custom_repos (lines 45-47).
InstallStart ==
    /\ ambari_pc = "install"
    /\ ambari_pc' = IF define_custom_repos THEN "put_stack" ELSE "post_blueprint"
    /\ UNCHANGED <<define_custom_repos, blueprint_i, hostmap_i, passwd_i, monitor_i,
                   response_dict, response, polls, gets, ambari_log, ambari_raised,
                   last_request,
                   hostmap_posts>>

\* _put_stack (lines 48-50, 67-77): one PUT, not retried.
PutStack ==
    /\ ambari_pc = "put_stack"
    /\ \E out \in HttpOutcomes :
          /\ last_request' = [req |-> ambari_pc, out |-> out]
          /\ IF out \in {"ok", "NoJson"}
             THEN ambari_pc' = "put_utils" /\ UNCHANGED ambari_raised
             ELSE AmbariRaise(HttpException(out), out)
    /\ UNCHANGED <<define_custom_repos, blueprint_i, hostmap_i, passwd_i, monitor_i,
                   response_dict, response, polls, gets, ambari_log,
                   hostmap_posts>>

\* _put_utils (lines 52-54, 79-89): one PUT, not retried.
PutUtils ==
    /\ ambari_pc = "put_utils"
    /\ \E out \in HttpOutcomes :
          /\ last_request' = [req |-> ambari_pc, out |-> out]
          /\ IF out \in {"ok", "NoJson"}
             THEN ambari_pc' = "post_blueprint" /\ UNCHANGED ambari_raised
             ELSE AmbariRaise(HttpException(out), out)
    /\ UNCHANGED <<define_custom_repos, blueprint_i, hostmap_i, passwd_i, monitor_i,
                   response_dict, response, polls, gets, ambari_log,
                   hostmap_posts>>

\* One try of the blueprint POST (lines 56-58, 91-101).
PostBlueprint ==
    /\ ambari_pc = "post_blueprint"
    /\ \E out \in HttpOutcomes :
          /\ last_request' = [req |-> ambari_pc, out |-> out]
          /\ AmbariRetried(out, blueprint_i, blueprint_tries, "post_hostmapping")
    /\ UNCHANGED <<define_custom_repos, hostmap_i, passwd_i, monitor_i,
                   response_dict, response, polls, gets, ambari_log,
                   hostmap_posts>>

\* A host-mapping POST under the retry budget of the blueprint POST.
PostHostmapping_blueprint_tries ==
    /\ ambari_pc = "post_hostmapping"
    /\ \E out \in HttpOutcomes :
          /\ last_request' = [req |-> ambari_pc, out |-> out]
          /\ AmbariRetried(out, hostmap_i, blueprint_tries, "monitor_loop")
          /\ response_dict' = IF out = "ok" THEN "href" ELSE None
          /\ \E took \in IF out \in {"ok", "NoJson"} THEN {1}
                          ELSE IF out = "HttpError" THEN {0} ELSE {0, 1} :
                hostmap_posts' = [sent |-> hostmap_posts.sent + 1,
                                  accepted |-> hostmap_posts.accepted + took]
    /\ UNCHANGED <<define_custom_repos, blueprint_i, passwd_i, monitor_i,
                   response, polls, gets, ambari_log>>

\* One try of the host-mapping POST (lines 109-116, 183-198); the body it
\* returned is kept in response_dict. The server has accepted the mapping
\* when it answers with a status below 400, has not when it answers with
\* an error status, and may have when the connection fails or times out
\* before the client has the response.
PostHostmapping ==
    /\ ambari_pc = "post_hostmapping"
    /\ \E out \in HttpOutcomes :
          /\ last_request' = [req |-> ambari_pc, out |-> out]
          /\ AmbariRetried(out, hostmap_i, ambari_retries, "monitor_loop")
          /\ response_dict' = IF out = "ok" THEN "href" ELSE None
          /\ \E took \in IF out \in {"ok", "NoJson"} THEN {1}
                          ELSE IF out = "HttpError" THEN {0} ELSE {0, 1} :
                hostmap_posts' = [sent |-> hostmap_posts.sent + 1,
                                  accepted |-> hostmap_posts.accepted + took]
    /\ UNCHANGED <<define_custom_repos, blueprint_i, passwd_i, monitor_i,
                   response, polls, gets, ambari_log>>

\* A loop whose polls share one retry budget.
MonitorLoop_shared_budget ==
    /\ ambari_pc = "monitor_loop"
    /\ polls < MaxPolls
    /\ IF response_dict = None
       THEN AmbariRaise("TypeError", "response_dict")
       ELSE ambari_pc' = "monitor_sleep" /\ UNCHANGED ambari_raised
    /\ UNCHANGED <<define_custom_repos, blueprint_i, hostmap_i, passwd_i, monitor_i,
                   response_dict, response, polls, gets, ambari_log, last_request,
                   hostmap_posts>>

\* The head of `while pending` with the evaluation of response_dict['href']
\* and the start of a retry of _monitor_request (lines 118-119).
MonitorLoop ==
    /\ ambari_pc = "monitor_loop"
    /\ polls < MaxPolls
    /\ IF response_dict = None
       THEN /\ AmbariRaise("TypeError", "response_dict")
            /\ UNCHANGED monitor_i
       ELSE /\ ambari_pc' = "monitor_sleep"
            /\ monitor_i' = 0
            /\ UNCHANGED ambari_raised
    /\ UNCHANGED <<define_custom_repos, blueprint_i, hostmap_i, passwd_i,
                   response_dict, response, polls, gets, ambari_log, last_request,
                   hostmap_posts>>

\* time.sleep(self.short_sleep) at the start of _monitor_request (line 151).
MonitorSleep ==
    /\ ambari_pc = "monitor_sleep"
    /\ ambari_pc' = "monitor_get"
    /\ response' = NoResponse
    /\ UNCHANGED <<define_custom_repos, blueprint_i, hostmap_i, passwd_i, monitor_i,
                   response_dict, polls, gets, ambari_log, ambari_raised, last_request,
                   hostmap_posts>>

\* A monitor without the TIMEDOUT branch.
MonitorResult_no_timedout(status, percent) ==
    IF status = "COMPLETED" THEN [ret |-> "False", log |-> None]
    ELSE IF status = "PENDING" \/ status = "IN_PROGRESS" THEN [ret |-> "True", log |-> "progress"]
    ELSE IF percent >= 95 THEN [ret |-> "True", log |-> "warning"]
    ELSE [ret |-> "raise", log |-> None]

\* The branch of _monitor_request on the two fields (lines 160-173): the
\* value it returns, with the line it logs, or the error it raises.
MonitorResult(status, percent) ==
    IF status = "TIMEDOUT" THEN [ret |-> "True", log |-> None]
    ELSE IF status = "COMPLETED" THEN [ret |-> "False", log |-> None]
    ELSE IF status = "PENDING" \/ status = "IN_PROGRESS" THEN [ret |-> "True", log |-> "progress"]
    ELSE IF percent >= 95 THEN [ret |-> "True", log |-> "warning"]
    ELSE [ret |-> "raise", log |-> None]

\* A transport error or a missing field in _monitor_request, under the retry
\* of line 119.
MonitorRetried(kind, msg) ==
    IF kind \in ambari_retry_exceptions /\ monitor_i # ambari_retries - 1
    THEN /\ monitor_i' = monitor_i + 1
         /\ ambari_pc' = "monitor_sleep"
         /\ UNCHANGED ambari_raised
    ELSE /\ AmbariRaise(kind, msg)
         /\ UNCHANGED monitor_i

\* What _get raises on a status >= 400 (lines 237-240): the error line is
\* built from self.api_root + endpoint before the raise, and endpoint is
\* None when the request was made with full_url only.
GetHttpError(endpoint) == IF endpoint = None THEN "TypeError" ELSE "AmbariException"

\* The GET of the tracking URL (full_url only) and the rest of
\* _monitor_request, with the assignment of its result to pending (lines
\* 119, 154-173).  The retry of line 154 retries KeyError only, which _get
\* does not raise.
MonitorGet ==
    /\ ambari_pc = "monitor_get"
    /\ gets' = gets + 1
    /\ \/ \E body \in GetBodies :
             LET r == MonitorResult(body.request_status, body.progress_percent) IN
             /\ response' = body
             /\ last_request' = [req |-> ambari_pc, out |-> "ok"]
             /\ ambari_log' = IF r.log = None THEN ambari_log ELSE ambari_log \cup {r.log}
             /\ IF r.ret = "raise"
                THEN /\ MonitorRetried("AmbariException", body)
                     /\ UNCHANGED polls
                ELSE IF r.ret = "True"
                THEN /\ ambari_pc' = "monitor_loop"
                     /\ polls' = polls + 1
                     /\ UNCHANGED <<monitor_i, ambari_raised>>
                ELSE /\ ambari_pc' = "change_password"
                     /\ UNCHANGED <<polls, monitor_i, ambari_raised>>
       \/ /\ \E out \in {"ConnectionError", "Timeout"} :
                /\ last_request' = [req |-> ambari_pc, out |-> out]
                /\ MonitorRetried(HttpException(out), out)
          /\ UNCHANGED <<response, polls, ambari_log>>
       \/ /\ last_request' = [req |-> ambari_pc, out |-> "HttpError"]
          /\ AmbariRaise(GetHttpError(None), "HttpError")
          /\ UNCHANGED <<response, polls, ambari_log, monitor_i>>
       \/ /\ last_request' = [req |-> ambari_pc, out |-> "MissingKey"]
          /\ MonitorRetried("KeyError", "Requests")
          /\ UNCHANGED <<response, polls, ambari_log>>
       \/ /\ last_request' = [req |-> ambari_pc, out |-> "NoJson"]
          /\ AmbariRaise("TypeError", "NoJson")
          /\ UNCHANGED <<response, polls, ambari_log, monitor_i>>
    /\ UNCHANGED <<define_custom_repos, blueprint_i, hostmap_i, passwd_i, response_dict,
                   hostmap_posts>>

\* One try of the PUT of the new admin password (lines 61-63, 121-140).
ChangeAdminPassword ==
    /\ ambari_pc = "change_password"
    /\ \E out \in HttpOutcomes :
          /\ last_request' = [req |-> ambari_pc, out |-> out]
          /\ AmbariRetried(out, passwd_i, ambari_retries, "mysql_password")
    /\ UNCHANGED <<define_custom_repos, blueprint_i, hostmap_i, monitor_i,
                   response_dict, response, polls, gets, ambari_log,
                   hostmap_posts>>

\* set_root_mysql_password on the master node (lines 64-65).
SetRootMysqlPassword ==
    /\ ambari_pc = "mysql_password"
    /\ \/ ambari_pc' = "done" /\ UNCHANGED ambari_raised
       \/ \E kind \in {"SSHException", "ShellException"} : AmbariRaise(kind, "mysql")
    /\ UNCHANGED <<define_custom_repos, blueprint_i, hostmap_i, passwd_i, monitor_i,
                   response_dict, response, polls, gets, ambari_log, last_request,
                   hostmap_posts>>

(***************************************************************************)
(* Chef.converge and install.install                                       *)
(***************************************************************************)
VARIABLES chef_tries, runlist, nodes, chef_pc, threads, threads_alive,
          chef_thread_exception, runtime_recipe, task,
          install_pc, use_existing_openstack, started, completed, cloud,
          install_raised

chefVars == <<chef_tries, runlist, nodes, chef_pc, threads, threads_alive,
              chef_thread_exception, runtime_recipe, task>>

installVars == <<install_pc, use_existing_openstack, started, completed, cloud,
                 install_raised>>

\* deploy.cluster.nodes, and the role of each node.
ClusterNodes == 1 .. MaxNodes
Role(n) == IF n = 1 THEN "master" ELSE "worker"

\* The runlists a caller passes to converge().
CustomRunlists == {"custom.json"}

\* The arguments of a task of _converge_custom with an install of the agent.
CustomArgs_install(rl, n) ==
    [runlist |-> rl, install_chef |-> TRUE, reformat_on_failure |-> FALSE]

\* The arguments _converge_custom gives to _converge_node (line 143).
CustomArgs(rl, n) ==
    [runlist |-> rl, install_chef |-> FALSE, reformat_on_failure |-> FALSE]

\* The arguments _converge_default gives to _converge_node (line 111).
DefaultArgs(n) ==
    [runlist |-> Role(n) \o ".json", install_chef |-> TRUE, reformat_on_failure |-> TRUE]

\* A node for which no thread was made.
NoTask ==
    [pc |-> "none", alive |-> FALSE, runlist |-> None, install_chef |-> FALSE,
     reformat_on_failure |-> FALSE, tries_left |-> 0, execs |-> 0, failures |-> 0,
     installs |-> 0, rebuilds |-> 0, raised |-> None]

ChefIdle ==
    /\ chef_tries = 0
    /\ runlist = None
    /\ nodes = {}
    /\ chef_pc = "idle"
    /\ threads = {}
    /\ threads_alive = 0
    /\ chef_thread_exception = FALSE
    /\ runtime_recipe = FALSE
    /\ task = [n \in ClusterNodes |-> NoTask]

InstallIdle ==
    /\ install_pc = "idle"
    /\ use_existing_openstack = FALSE
    /\ started = <<>>
    /\ completed = <<>>
    /\ cloud = {}
    /\ install_raised = None

\* A Chef object of a deployment with chef_tries tries, before a call of
\* converge(), converge(runlist, nodes) or, from install(), converge(). The
\* value of the configuration is taken as it is (deploy.py:82), a zero or
\* a negative number included.
ChefInit ==
    /\ chef_tries \in -1 .. MaxChefTries
    /\ \/ /\ install_pc = "install"
          /\ chef_pc = "idle"
          /\ runlist = None
          /\ nodes = {}
          /\ use_existing_openstack \in BOOLEAN
          /\ cloud = IF use_existing_openstack THEN {"stack"} ELSE {}
       \/ /\ install_pc = "idle"
          /\ chef_pc = "converge"
          /\ \/ runlist = None /\ nodes = {}
             \/ runlist \in CustomRunlists /\ nodes \in SUBSET ClusterNodes
          /\ use_existing_openstack = FALSE
          /\ cloud = {}
    /\ threads = {}
    /\ threads_alive = 0
    /\ chef_thread_exception = FALSE
    /\ runtime_recipe = FALSE
    /\ task = [n \in ClusterNodes |-> NoTask]
    /\ started = <<>>
    /\ completed = <<>>
    /\ install_raised = None

\* converge() up to the start of the threads and the first value of
\* threads_alive (lines 44-49, 107-117, 141-149).
ConvergeStart ==
    /\ chef_pc = "converge"
    /\ LET default == runlist = None
           targets == IF default THEN ClusterNodes ELSE nodes IN
       /\ runtime_recipe' = (runtime_recipe \/ default)
       /\ threads' = targets
       /\ task' = [n \in ClusterNodes |->
                     IF n \in targets
                     THEN LET args == IF default THEN DefaultArgs(n)
                                      ELSE CustomArgs(runlist, n) IN
                          [NoTask EXCEPT !.pc = "ssh", !.alive = TRUE,
                                         !.runlist = args.runlist,
                                         !.install_chef = args.install_chef,
                                         !.reformat_on_failure = args.reformat_on_failure]
                     ELSE task[n]]
       /\ threads_alive' = Cardinality(targets)
       /\ chef_pc' = IF Cardinality(targets) > 0 THEN "sleep" ELSE "done"
    /\ UNCHANGED <<chef_tries, runlist, nodes, chef_thread_exception>>

\* time.sleep(10) and the count of the threads that are alive (lines 119-123).
ConvergeScan ==
    /\ chef_pc = "sleep"
    /\ threads_alive' = Cardinality({n \in threads : task[n].alive})
    /\ chef_pc' = "check"
    /\ UNCHANGED <<chef_tries, runlist, nodes, threads, chef_thread_exception,
                   runtime_recipe, task>>

\* A test of the flag that is skipped once no thread is alive.
ConvergeCheck_alive_first ==
    /\ chef_pc = "check"
    /\ chef_pc' = IF threads_alive = 0 THEN "done"
                  ELSE IF chef_thread_exception THEN "exiting"
                  ELSE "sleep"
    /\ UNCHANGED <<chef_tries, runlist, nodes, threads, threads_alive,
                   chef_thread_exception, runtime_recipe, task>>

\* The test of self.thread_exception and of the loop condition (lines
\* 118, 125-126).
ConvergeCheck ==
    /\ chef_pc = "check"
    /\ chef_pc' = IF chef_thread_exception THEN "exiting"
                  ELSE IF threads_alive > 0 THEN "sleep"
                  ELSE "done"
    /\ UNCHANGED <<chef_tries, runlist, nodes, threads, threads_alive,
                   chef_thread_exception, runtime_recipe, task>>

\* time.sleep(1) and os._exit(1) (lines 126-127): the process ends with
\* every thread in it.
ConvergeExit ==
    /\ chef_pc = "exiting"
    /\ chef_pc' = "exited"
    /\ UNCHANGED <<chef_tries, runlist, nodes, threads, threads_alive,
                   chef_thread_exception, runtime_recipe, task>>

\* The threads run while the process does.
ChefProcessAlive == chef_pc # "exited"

\* The except clause of _converge_node (lines 231-233): the flag is set and
\* the exception ends the thread.
TaskRaise(n, kind, t) ==
    /\ task' = [task EXCEPT ![n] = [t EXCEPT !.pc = "excepted", !.raised = kind]]
    /\ chef_thread_exception' = TRUE

\* A first value of tries_left that is never below 1.
TaskSsh_at_least_one(n) ==
    /\ ChefProcessAlive
    /\ task[n].pc = "ssh"
    /\ \/ /\ task' = [task EXCEPT ![n].pc = "loop",
                                   ![n].tries_left = IF chef_tries < 1 THEN 1 ELSE chef_tries]
          /\ UNCHANGED chef_thread_exception
       \/ TaskRaise(n, "SSHException", task[n])
    /\ UNCHANGED <<chef_tries, runlist, nodes, chef_pc, threads, threads_alive,
                   runtime_recipe>>

\* test_node_ssh_availability and the first value of tries_left (lines
\* 173, 179).
TaskSsh(n) ==
    /\ ChefProcessAlive
    /\ task[n].pc = "ssh"
    /\ \/ /\ task' = [task EXCEPT ![n].pc = "loop", ![n].tries_left = chef_tries]
          /\ UNCHANGED chef_thread_exception
       \/ TaskRaise(n, "SSHException", task[n])
    /\ UNCHANGED <<chef_tries, runlist, nodes, chef_pc, threads, threads_alive,
                   runtime_recipe>>

\* The head of `while True` (lines 180-184).
TaskLoop(n) ==
    /\ ChefProcessAlive
    /\ task[n].pc = "loop"
    /\ task[n].execs < MaxExecs
    /\ task' = [task EXCEPT ![n].tries_left = @ - 1,
                            ![n].pc = IF task[n].install_chef THEN "install" ELSE "knife"]
    /\ UNCHANGED <<chef_tries, runlist, nodes, chef_pc, threads, threads_alive,
                   chef_thread_exception, runtime_recipe>>

\* An install whose failure goes back to the head of the loop.
TaskInstall_retry(n) ==
    /\ ChefProcessAlive
    /\ task[n].pc = "install"
    /\ LET t == [task[n] EXCEPT !.installs = @ + 1] IN
       \/ task' = [task EXCEPT ![n] = [t EXCEPT !.pc = "knife"]]
       \/ task' = [task EXCEPT ![n] = [t EXCEPT !.pc = "loop"]]
    /\ UNCHANGED <<chef_tries, runlist, nodes, chef_pc, threads, threads_alive,
                   chef_thread_exception, runtime_recipe>>

\* _install_chef (lines 184, 235-265).
TaskInstall(n) ==
    /\ ChefProcessAlive
    /\ task[n].pc = "install"
    /\ LET t == [task[n] EXCEPT !.installs = @ + 1] IN
       \/ /\ task' = [task EXCEPT ![n] = [t EXCEPT !.pc = "knife"]]
          /\ UNCHANGED chef_thread_exception
       \/ \E kind \in {"ShellException", "SSHException"} : TaskRaise(n, kind, t)
    /\ UNCHANGED <<chef_tries, runlist, nodes, chef_pc, threads, threads_alive,
                   runtime_recipe>>

\* A test of the budget that lets one more try through.
Exhausted_after(tries_left) == tries_left = -1

\* The test that ends the tries (line 222).
Exhausted(tries_left) == tries_left = 0

\* A branch on the exit code that tests the rebuild before the budget.
TaskKnife_rebuild_first(n) ==
    /\ ChefProcessAlive
    /\ task[n].pc = "knife"
    /\ \E returncode \in {0, 1} :
          LET t == [task[n] EXCEPT !.execs = @ + 1,
                                   !.failures = IF returncode = 0 THEN @ ELSE @ + 1] IN
          IF returncode = 0
          THEN /\ task' = [task EXCEPT ![n] = [t EXCEPT !.pc = "returned"]]
               /\ UNCHANGED chef_thread_exception
          ELSE IF t.reformat_on_failure
          THEN /\ task' = [task EXCEPT ![n] = [t EXCEPT !.pc = "rebuild"]]
               /\ UNCHANGED chef_thread_exception
          ELSE IF Exhausted(t.tries_left)
          THEN TaskRaise(n, "ChefException", t)
          ELSE /\ task' = [task EXCEPT ![n] = [t EXCEPT !.pc = "loop"]]
               /\ UNCHANGED chef_thread_exception
    /\ UNCHANGED <<chef_tries, runlist, nodes, chef_pc, threads, threads_alive,
                   runtime_recipe>>

\* One run of the knife command and the branch on its exit code (lines
\* 186-229).
TaskKnife(n) ==
    /\ ChefProcessAlive
    /\ task[n].pc = "knife"
    /\ \E returncode \in {0, 1} :
          LET t == [task[n] EXCEPT !.execs = @ + 1,
                                   !.failures = IF returncode = 0 THEN @ ELSE @ + 1] IN
          IF returncode = 0
          THEN /\ task' = [task EXCEPT ![n] = [t EXCEPT !.pc = "returned"]]
               /\ UNCHANGED chef_thread_exception
          ELSE IF Exhausted(t.tries_left)
          THEN TaskRaise(n, "ChefException", t)
          ELSE /\ task' = [task EXCEPT ![n] =
                             [t EXCEPT !.pc = IF t.reformat_on_failure THEN "rebuild"
                                              ELSE "loop"]]
               /\ UNCHANGED chef_thread_exception
    /\ UNCHANGED <<chef_tries, runlist, nodes, chef_pc, threads, threads_alive,
                   runtime_recipe>>

\* _rebuild_and_reformat (lines 225-227, 267-274): rebuild_node and unmount.
TaskRebuild(n) ==
    /\ ChefProcessAlive
    /\ task[n].pc = "rebuild"
    /\ LET t == [task[n] EXCEPT !.rebuilds = @ + 1] IN
       \/ /\ task' = [task EXCEPT ![n] = [t EXCEPT !.pc = "loop"]]
          /\ UNCHANGED chef_thread_exception
       \/ \E kind \in {"RebuildException", "ConfigException", "ShellException"} :
             TaskRaise(n, kind, t)
    /\ UNCHANGED <<chef_tries, runlist, nodes, chef_pc, threads, threads_alive,
                   runtime_recipe>>

\* The end of a thread, after the return or the exception of its target.
TaskEnd(n) ==
    /\ ChefProcessAlive
    /\ task[n].pc \in {"returned", "excepted"}
    /\ task[n].alive
    /\ task' = [task EXCEPT ![n].alive = FALSE]
    /\ UNCHANGED <<chef_tries, runlist, nodes, chef_pc, threads, threads_alive,
                   chef_thread_exception, runtime_recipe>>

\* The call of the provisioning that the configuration does not ask for.
ProvisionCall_inverted(use_existing) == IF use_existing THEN "build" ELSE "rebuild"

\* The branch on deploy.use_existing_openstack (install.py lines 38-41).
ProvisionCall(use_existing) == IF use_existing THEN "rebuild" ELSE "build"

\* A phase after the provisioning failed and a handler deletes the stack.
InstallFail_rollback(how, kind, phases) ==
    /\ install_pc' = how
    /\ install_raised' = kind
    /\ started' = phases
    /\ cloud' = {}
    /\ UNCHANGED <<use_existing_openstack, completed>>

\* A phase after the provisioning failed: install() has no handler, the
\* exception or the exit ends it (install.py lines 43-56).
InstallFail(how, kind, phases) ==
    /\ install_pc' = how
    /\ install_raised' = kind
    /\ started' = phases
    /\ UNCHANGED <<use_existing_openstack, completed, cloud>>

\* Deploy, the blueprints and the deployment directory (install.py lines
\* 19-36).
InstallSetup ==
    /\ install_pc = "install"
    /\ \/ install_pc' = "provision" /\ UNCHANGED install_raised
       \/ /\ install_pc' = "raised"
          /\ \E kind \in {"ConfigException", "IOError"} : install_raised' = kind
    /\ UNCHANGED <<use_existing_openstack, started, completed, cloud>>
    /\ UNCHANGED chefVars

\* openstack.rebuild() or openstack.build() (install.py lines 38-41): it
\* returns, raises or ends the process.  build() leaves a new stack when it
\* returns and may leave one when it fails; rebuild() keeps the stack.
InstallProvision ==
    /\ install_pc = "provision"
    /\ LET call == ProvisionCall(use_existing_openstack) IN
       /\ started' = Append(started, call)
       /\ \/ /\ install_pc' = "persist"
             /\ completed' = Append(completed, call)
             /\ cloud' = IF call = "build" THEN {"stack"} ELSE cloud
             /\ UNCHANGED install_raised
          \/ /\ install_pc' \in {"raised", "exited"}
             /\ \E kind \in {"HeatException", "ConfigException"} :
                   install_raised' = IF install_pc' = "exited" THEN "os._exit" ELSE kind
             /\ cloud' \in IF call = "build" THEN {{}, {"stack"}} ELSE {cloud}
             /\ UNCHANGED completed
    /\ UNCHANGED use_existing_openstack
    /\ UNCHANGED chefVars

\* The write of cluster.json (install.py lines 43-46).
InstallPersist ==
    /\ install_pc = "persist"
    /\ \/ /\ install_pc' = "converge"
          /\ started' = Append(started, "persist")
          /\ completed' = Append(completed, "persist")
          /\ UNCHANGED <<use_existing_openstack, cloud, install_raised>>
       \/ InstallFail("raised", "IOError", Append(started, "persist"))
    /\ UNCHANGED chefVars

\* Chef(deploy).converge() is called (install.py lines 49-50).
InstallConverge ==
    /\ install_pc = "converge"
    /\ chef_pc = "idle"
    /\ chef_pc' = "converge"
    /\ install_pc' = "converging"
    /\ started' = Append(started, "converge")
    /\ UNCHANGED <<use_existing_openstack, completed, cloud, install_raised>>
    /\ UNCHANGED <<chef_tries, runlist, nodes, threads, threads_alive,
                   chef_thread_exception, runtime_recipe, task>>

\* converge() returned, or ended the process (install.py line 50).
InstallConverged ==
    /\ install_pc = "converging"
    /\ \/ /\ chef_pc = "done"
          /\ install_pc' = "ambari"
          /\ completed' = Append(completed, "converge")
          /\ UNCHANGED <<use_existing_openstack, started, cloud, install_raised>>
       \/ /\ chef_pc = "exited"
          /\ InstallFail("exited", "os._exit", started)
    /\ UNCHANGED chefVars

\* Ambari(deploy).install() (install.py lines 53-56).
InstallAmbari ==
    /\ install_pc = "ambari"
    /\ \/ /\ install_pc' = "done"
          /\ started' = Append(started, "ambari")
          /\ completed' = Append(completed, "ambari")
          /\ UNCHANGED <<use_existing_openstack, cloud, install_raised>>
       \/ \E kind \in {"AmbariException", "TypeError", "ConnectionError"} :
             InstallFail("raised", kind, Append(started, "ambari"))
    /\ UNCHANGED chefVars

(***************************************************************************)
(* Openstack.rebuild and Openstack.rebuild_node                            *)
(***************************************************************************)
VARIABLES key_name, private_key, image_found, rb_servers, rebuild_threads,
          thread_alive, rb_task, nova, now, node_written, triggered

rebuildVars == <<key_name, private_key, image_found, rb_servers, rebuild_threads,
                 thread_alive, rb_task, nova, now, node_written, triggered>>

\* The variables of the Openstack object that rebuild() does not use.
ostRest == <<deploy_stack_name, project, ostLocals, delete_calls, cleanup_runs>>

\* The seconds rebuild_node waits for the status REBUILD (line 64).
rebuild_deadline == 480

\* The servers nova lists: server n of 1 .. MaxNodes has the name of node n
\* of the cluster, server 0 a name that no node has.
NovaServers == 0 .. MaxNodes
KnownNode(s) == s \in 1 .. MaxNodes

\* Values of deploy.key_name and of cluster.private_key in a configuration.
KeyValues == {None, "", "key"}
Falsy(v) == v \in {None, ""}

\* A test that asks for both values to be missing.
KeyMissing_both(k, p) == Falsy(k) /\ Falsy(p)

\* The test of line 191.
KeyMissing(k, p) == Falsy(k) \/ Falsy(p)

NoRbTask ==
    [pc |-> "none", alive |-> FALSE, start |-> 0, observed |-> None, seen |-> FALSE,
     out |-> None, raised |-> None]

NovaIdle == [status |-> "ACTIVE", phase |-> "idle"]

RebuildIdle ==
    /\ key_name = None
    /\ private_key = None
    /\ image_found = FALSE
    /\ rb_servers = {}
    /\ rebuild_threads = {}
    /\ thread_alive = FALSE
    /\ rb_task = [s \in NovaServers |-> NoRbTask]
    /\ nova = [s \in NovaServers |-> NovaIdle]
    /\ now = 0
    /\ node_written = {}
    /\ triggered = {}

\* An Openstack object of a deployment on an existing footprint, about to
\* run rebuild().
RebuildInit ==
    /\ key_name \in KeyValues
    /\ private_key \in KeyValues
    /\ image_found \in BOOLEAN
    /\ rb_servers \in {S \in SUBSET NovaServers : Cardinality(S) <= MaxThreads}
    /\ rebuild_threads = {}
    /\ thread_alive = FALSE
    /\ rb_task = [s \in NovaServers |-> NoRbTask]
    /\ nova = [s \in NovaServers |-> NovaIdle]
    /\ now = 0
    /\ node_written = {}
    /\ triggered = {}
    /\ ost_pc = "rebuild"
    /\ thread_exception = FALSE
    /\ ost_raised = NoError
    /\ deploy_stack_name = None
    /\ stacks = <<>>
    /\ floatingips = {}
    /\ servers = 0
    /\ volumes = 0
    /\ cleanup_from = None
    /\ stack_list = <<>>
    /\ destroy_i = 0
    /\ delete_i = 0
    /\ check_i = 0
    /\ uid = 0
    /\ stack = NoStack
    /\ del_stack = NoStack
    /\ delete_calls = {}
    /\ cleanup_runs = 0

\* rebuild() up to the start of the threads (lines 189-204).
RebuildStart ==
    /\ ost_pc = "rebuild"
    /\ IF KeyMissing(key_name, private_key)
       THEN /\ OstRaise("ConfigException", "key_name")
            /\ UNCHANGED <<rebuild_threads, thread_alive, rb_task>>
       ELSE /\ rebuild_threads' = rb_servers
            /\ rb_task' = [s \in NovaServers |->
                             IF s \in rb_servers
                             THEN [NoRbTask EXCEPT !.pc = "get_node", !.alive = TRUE]
                             ELSE rb_task[s]]
            /\ thread_alive' = TRUE
            /\ ost_pc' = "rb_scan"
            /\ UNCHANGED ost_raised
    /\ UNCHANGED <<key_name, private_key, image_found, rb_servers, nova, now,
                   node_written, triggered, thread_exception, ostRest>>

\* One pass over the threads (lines 205-209).
RebuildScan ==
    /\ ost_pc = "rb_scan"
    /\ thread_alive' = (\E s \in rebuild_threads : rb_task[s].alive)
    /\ ost_pc' = "rb_check"
    /\ UNCHANGED <<key_name, private_key, image_found, rb_servers, rebuild_threads,
                   rb_task, nova, now, node_written, triggered, thread_exception,
                   ost_raised, ostRest>>

\* The test of self.thread_exception and of the loop condition (lines 205,
\* 210).
RebuildCheck ==
    /\ ost_pc = "rb_check"
    /\ ost_pc' = IF thread_exception THEN "rb_exiting"
                 ELSE IF thread_alive THEN "rb_scan"
                 ELSE "rb_populate"
    /\ UNCHANGED <<rebuildVars, thread_exception, ost_raised, ostRest>>

\* time.sleep(1) and os._exit(1) (lines 211-212).
RebuildExit ==
    /\ ost_pc = "rb_exiting"
    /\ ost_pc' = "exited"
    /\ UNCHANGED <<rebuildVars, thread_exception, ost_raised, ostRest>>

\* The node list is filled and the key path is set (lines 215-216).
RebuildPopulate ==
    /\ ost_pc = "rb_populate"
    /\ ost_pc' = "done"
    /\ private_key' = "key"
    /\ UNCHANGED <<key_name, image_found, rb_servers, rebuild_threads, thread_alive,
                   rb_task, nova, now, node_written, triggered, thread_exception,
                   ost_raised, ostRest>>

\* The threads run while the process does.
RebuildProcessAlive == ost_pc # "exited"

\* The except clause of _rebuild_server (lines 234-236).
RbRaise(s, kind, t) ==
    /\ rb_task' = [rb_task EXCEPT ![s] = [t EXCEPT !.pc = "excepted", !.raised = kind]]
    /\ thread_exception' = TRUE

\* get_node and the two assignments to the Node (lines 226-228).
RbGetNode(s) ==
    /\ RebuildProcessAlive
    /\ rb_task[s].pc = "get_node"
    /\ IF KnownNode(s)
       THEN /\ rb_task' = [rb_task EXCEPT ![s].pc = "images"]
            /\ node_written' = node_written \cup {s}
            /\ UNCHANGED thread_exception
       ELSE /\ RbRaise(s, "NodeNotFoundException", rb_task[s])
            /\ UNCHANGED node_written
    /\ UNCHANGED <<key_name, private_key, image_found, rb_servers, rebuild_threads,
                   thread_alive, nova, now, triggered, ost_pc, ost_raised, ostRest>>

\* rebuild_node up to the call of server.rebuild (openstack.py lines 40-55).
RbTrigger(s) ==
    /\ RebuildProcessAlive
    /\ rb_task[s].pc = "images"
    /\ IF image_found
       THEN /\ rb_task' = [rb_task EXCEPT ![s].pc = "get"]
            /\ triggered' = triggered \cup {s}
            /\ nova' = [nova EXCEPT ![s].phase = "pending"]
            /\ UNCHANGED thread_exception
       ELSE /\ RbRaise(s, "ConfigException", [rb_task[s] EXCEPT !.out = "ConfigException"])
            /\ UNCHANGED <<triggered, nova>>
    /\ UNCHANGED <<key_name, private_key, image_found, rb_servers, rebuild_threads,
                   thread_alive, now, node_written, ost_pc, ost_raised, ostRest>>

\* The first get after the trigger and the reading of the clock (lines
\* 57-60).
RbGet(s) ==
    /\ RebuildProcessAlive
    /\ rb_task[s].pc = "get"
    /\ rb_task' = [rb_task EXCEPT ![s].observed = nova[s].status,
                                  ![s].start = now,
                                  ![s].seen = (nova[s].status = "REBUILD"),
                                  ![s].pc = IF nova[s].status = "REBUILD" THEN "poll2"
                                            ELSE "poll1"]
    /\ UNCHANGED <<key_name, private_key, image_found, rb_servers, rebuild_threads,
                   thread_alive, nova, now, node_written, triggered, thread_exception,
                   ost_pc, ost_raised, ostRest>>

\* A first loop that also ends when it observes ACTIVE.
RbPoll1_accepts_active(s) ==
    /\ RebuildProcessAlive
    /\ rb_task[s].pc = "poll1"
    /\ LET t == [rb_task[s] EXCEPT !.observed = nova[s].status] IN
       IF now - t.start > rebuild_deadline
       THEN RbRaise(s, "RebuildException", [t EXCEPT !.out = "no_response"])
       ELSE /\ rb_task' = [rb_task EXCEPT ![s] =
                             IF t.observed \in {"REBUILD", "ACTIVE"}
                             THEN [t EXCEPT !.pc = "poll2", !.seen = (t.observed = "REBUILD")]
                             ELSE t]
            /\ UNCHANGED thread_exception
    /\ UNCHANGED <<key_name, private_key, image_found, rb_servers, rebuild_threads,
                   thread_alive, nova, now, node_written, triggered, ost_pc, ost_raised,
                   ostRest>>

\* One turn of the first loop (lines 60-65): a get, then the test of the
\* deadline, then the test of the status.
RbPoll1(s) ==
    /\ RebuildProcessAlive
    /\ rb_task[s].pc = "poll1"
    /\ LET t == [rb_task[s] EXCEPT !.observed = nova[s].status] IN
       IF now - t.start > rebuild_deadline
       THEN RbRaise(s, "RebuildException", [t EXCEPT !.out = "no_response"])
       ELSE /\ rb_task' = [rb_task EXCEPT ![s] =
                             IF t.observed = "REBUILD"
                             THEN [t EXCEPT !.pc = "poll2", !.seen = TRUE]
                             ELSE t]
            /\ UNCHANGED thread_exception
    /\ UNCHANGED <<key_name, private_key, image_found, rb_servers, rebuild_threads,
                   thread_alive, nova, now, node_written, triggered, ost_pc, ost_raised,
                   ostRest>>

\* An end of rebuild_node that takes every final status for a success.
RebuildOutcome_always(status) == "returned"

\* The end of rebuild_node on the final status (lines 70-73).
RebuildOutcome(status) == IF status = "ACTIVE" THEN "returned" ELSE "error_state"

\* The test and one turn of the second loop, and the end of rebuild_node
\* (lines 67-73).
RbPoll2(s) ==
    /\ RebuildProcessAlive
    /\ rb_task[s].pc = "poll2"
    /\ IF rb_task[s].observed \in {"ACTIVE", "ERROR"}
       THEN LET t == [rb_task[s] EXCEPT !.out = RebuildOutcome(rb_task[s].observed)] IN
            IF t.out = "returned"
            THEN /\ rb_task' = [rb_task EXCEPT ![s] = [t EXCEPT !.pc = "unmount"]]
                 /\ UNCHANGED thread_exception
            ELSE RbRaise(s, "RebuildException", t)
       ELSE /\ rb_task' = [rb_task EXCEPT ![s].observed = nova[s].status]
            /\ UNCHANGED thread_exception
    /\ UNCHANGED <<key_name, private_key, image_found, rb_servers, rebuild_threads,
                   thread_alive, nova, now, node_written, triggered, ost_pc, ost_raised,
                   ostRest>>

\* unmount of the volume of the node (line 233).
RbUnmount(s) ==
    /\ RebuildProcessAlive
    /\ rb_task[s].pc = "unmount"
    /\ \/ /\ rb_task' = [rb_task EXCEPT ![s].pc = "returned"]
          /\ UNCHANGED thread_exception
       \/ \E kind \in {"ShellException", "SSHException"} : RbRaise(s, kind, rb_task[s])
    /\ UNCHANGED <<key_name, private_key, image_found, rb_servers, rebuild_threads,
                   thread_alive, nova, now, node_written, triggered, ost_pc, ost_raised,
                   ostRest>>

\* The end of a thread, after the return or the exception of its target.
RbEnd(s) ==
    /\ RebuildProcessAlive
    /\ rb_task[s].pc \in {"returned", "excepted"}
    /\ rb_task[s].alive
    /\ rb_task' = [rb_task EXCEPT ![s].alive = FALSE]
    /\ UNCHANGED <<key_name, private_key, image_found, rb_servers, rebuild_threads,
                   thread_alive, nova, now, node_written, triggered, thread_exception,
                   ost_pc, ost_raised, ostRest>>

\* Nova works on a rebuild it accepted: the server goes to REBUILD and from
\* there to ACTIVE or ERROR, or to ERROR at once.
NovaStep(s) ==
    /\ nova[s].phase \in {"pending", "rebuilding"}
    /\ \/ /\ nova[s].phase = "pending"
          /\ nova' = [nova EXCEPT ![s] = [status |-> "REBUILD", phase |-> "rebuilding"]]
       \/ /\ nova[s].phase = "pending"
          /\ nova' = [nova EXCEPT ![s] = [status |-> "ERROR", phase |-> "finished"]]
       \/ /\ nova[s].phase = "rebuilding"
          /\ \E status \in {"ACTIVE", "ERROR"} :
                nova' = [nova EXCEPT ![s] = [status |-> status, phase |-> "finished"]]
    /\ UNCHANGED <<key_name, private_key, image_found, rb_servers, rebuild_threads,
                   thread_alive, rb_task, now, node_written, triggered, thread_exception,
                   ost_pc, ost_raised, ostRest>>

\* time.time() moves on while a thread waits for the status REBUILD.
Tick ==
    /\ \E s \in rebuild_threads : rb_task[s].pc \in {"get", "poll1"}
    /\ now + ClockStep <= MaxClock
    /\ now' = now + ClockStep
    /\ UNCHANGED <<key_name, private_key, image_found, rb_servers, rebuild_threads,
                   thread_alive, rb_task, nova, node_written, triggered, thread_exception,
                   ost_pc, ost_raised, ostRest>>

(***************************************************************************)
(* The Cluster and its Nodes (domain/cluster.py, domain/node.py): built    *)
(* from the topology template, used by the blueprints, filled in by the    *)
(* provisioning (build, or rebuild with one task per server), written to   *)
(* cluster.json by install(), loaded from it by a standalone phase, and    *)
(* read by the convergence and the install.                                *)
(***************************************************************************)
VARIABLES template_dictionary, cluster, heap, cluster_pc, cluster_raised,
          use_existing, stack_status, server_list, populate_i, server_task,
          written, snapshot, dumped, later

clusterVars == <<template_dictionary, cluster, heap, cluster_pc, cluster_raised,
                 use_existing, stack_status, server_list, populate_i, server_task,
                 written, snapshot, dumped, later>>

\* Python values with their type: json keeps the type of a number, a
\* boolean and None, and turns a str into a unicode of the same text.
Py(t, v) == [t |-> t, v |-> v]
PyNone == Py("NoneType", "None")

\* a == b of Python 2 on these values: an ASCII str equals the unicode of
\* the same text.
PyEq(a, b) ==
    IF a.t \in {"str", "unicode"} /\ b.t \in {"str", "unicode"} THEN a.v = b.v
    ELSE a.t = b.t /\ a.v = b.v

\* not value, for the values a Node field can hold.
Empty(a) ==
    \/ a.t = "NoneType"
    \/ a.t \in {"str", "unicode"} /\ a.v = ""
    \/ a.t = "int" /\ a.v = 0

\* json.dumps and json.loads on one value.
Dumps(a) ==
    CASE a.t = "NoneType" -> [j |-> "null", text |-> "null"]
      [] a.t = "bool" -> [j |-> "boolean", text |-> IF a.v THEN "true" ELSE "false"]
      [] a.t = "int" -> [j |-> "number", text |-> ToString(a.v)]
      [] OTHER -> [j |-> "string", text |-> a.v]

\* A number is read back among the integers that occur as field values.
Loads_as_text(x) ==
    CASE x.j = "null" -> PyNone
      [] x.j = "boolean" -> Py("bool", x.text = "true")
      [] OTHER -> Py("unicode", x.text)
Loads(x) ==
    CASE x.j = "null" -> PyNone
      [] x.j = "boolean" -> Py("bool", x.text = "true")
      [] x.j = "number" -> Py("int", CHOOSE n \in {0, 10, 4096} : ToString(n) = x.text)
      [] OTHER -> Py("unicode", x.text)

\* Node.__init__ (node.py:3-15): the fields with their defaults.
NodeDefault ==
    [name |-> PyNone, fqdn |-> PyNone, internal_ip |-> PyNone, floating_ip |-> PyNone,
     server_id |-> PyNone, ram |-> PyNone, role |-> PyNone, volume_size |-> PyNone,
     flavor |-> PyNone, ambari_group |-> PyNone, primary |-> Py("bool", FALSE)]

\* The templates: the node groups "m" and "w" in the order iteritems()
\* yields them, each with its count, and the value of the key `primary`.
Templates ==
    {[nodes |-> g, primary |-> p] :
        g \in {s \in UNION {[1..n -> [spec : {"m", "w"}, count : 1..MaxCount]] : n \in 0..2} :
                  \A a, b \in DOMAIN s : a # b => s[a].spec # s[b].spec},
        p \in {"m", "m1", "w"}}

\* Lines 69-83: node i of a group, named after the group when it is the
\* only one, with the properties of the group and the fqdn suffix ".rs".
TemplateNode(spec, count, i, primary) ==
    LET node_name == IF count = 1 THEN spec ELSE spec \o ToString(i) IN
    [NodeDefault EXCEPT
        !.name = Py("str", node_name),
        !.fqdn = Py("str", node_name \o ".rs"),
        !.role = Py("str", "role_" \o spec),
        !.volume_size = Py("int", 10),
        !.flavor = Py("str", "small"),
        !.ambari_group = Py("str", spec),
        !.primary = Py("bool", node_name = primary)]

\* Lines 64-88: the Node objects in the order they are appended.
RECURSIVE TemplateNodes(_, _)
TemplateNodes(groups, primary) ==
    IF groups = <<>> THEN <<>>
    ELSE [i \in 1..Head(groups).count |->
             TemplateNode(Head(groups).spec, Head(groups).count, i, primary)]
         \o TemplateNodes(Tail(groups), primary)

\* Lines 85-86: the object the attribute master_node ends on, 0 when the
\* attribute was never set.
RECURSIVE LastPrimary(_, _)
LastPrimary(objs, n) ==
    IF n = 0 THEN 0
    ELSE IF objs[n].primary.v THEN n ELSE LastPrimary(objs, n - 1)

\* A lookup that returns the first node of the roster for every name.
get_node_first(h, roster, node_name) == IF roster = <<>> THEN 0 ELSE roster[1]

\* Cluster.get_node (lines 125-136): the first node of that name, 0 for
\* NodeNotFoundException.
get_node(h, roster, node_name) ==
    IF \E i \in 1..Len(roster) : PyEq(h[roster[i]].name, Py("str", node_name))
    THEN roster[CHOOSE i \in 1..Len(roster) :
                   /\ PyEq(h[roster[i]].name, Py("str", node_name))
                   /\ \A k \in 1..(i - 1) : ~PyEq(h[roster[k]].name, Py("str", node_name))]
    ELSE 0

NoCluster ==
    [ssh_user |-> PyNone, private_key |-> PyNone, key_name |-> PyNone,
     cluster_name |-> PyNone, nodes |-> <<>>, master_node |-> 0]
Absent == [j |-> "absent"]
NoAccess == [op |-> "none", node |-> 0, read |-> PyNone]

\* Values of the configuration file that reach the Cluster (deploy.py:100-107).
ClusterConfigs ==
    [ssh_user : {Py("str", "centos")}, existing_key_location : {PyNone, Py("str", "/keys/rs")},
     key_name : {PyNone, Py("str", "rs")}, cluster_name : {Py("str", "rs")}]

\* What nova reports of the server of a node.
ServerField(name, f) ==
    CASE f = "ram" -> Py("int", 4096)
      [] f = "server_id" -> Py("str", "id-" \o name)
      [] f = "internal_ip" -> Py("str", "10.0." \o name)
      [] f = "floating_ip" -> Py("str", "172.0." \o name)

\* os.path.join(deploy.directory, deploy.key_name), and the path
\* _create_private_key returns (openstack.py:146-149, 431-438).
KeyPath(key) == IF Empty(key) THEN Py("str", "/deploy/rs-1") ELSE Py("str", "/deploy/" \o key.v)

\* The names of the roster, in its order.
RosterNames == [i \in 1..Len(cluster.nodes) |-> heap[cluster.nodes[i]].name.v]

\* nova.servers.list(): the servers of the nodes in S, then the servers
\* of other names; the servers in `late` have no floating address yet.
Listing(S, others, late) ==
    LET kept == SelectSeq([i \in 1..Len(RosterNames) |-> i], LAMBDA i : i \in S)
        names == [k \in 1..Len(kept) |-> RosterNames[kept[k]]] \o others
    IN [k \in 1..Len(names) |->
           [name |-> names[k], addrs |-> IF names[k] \in late THEN 1 ELSE 2]]

\* The listings after a stack creation: a complete stack holds the server
\* of every node (heat_template.py:81), any other stack some of them.
BuildListings(status) ==
    {Listing(S, <<>>, late) :
        S \in {T \in SUBSET (1..Len(RosterNames)) :
                  status = "CREATE_COMPLETE" => T = 1..Len(RosterNames)},
        late \in {L \in SUBSET {RosterNames[i] : i \in 1..Len(RosterNames)} :
                     Cardinality(L) <= MaxLate}}

\* The listings of an existing footprint: servers of nodes, and at most
\* one server of a name that no node has.
RebuildListings ==
    {l \in {Listing(S, others, late) :
               S \in SUBSET (1..Len(RosterNames)),
               others \in {<<>>, <<"foreign">>},
               late \in {L \in SUBSET {RosterNames[i] : i \in 1..Len(RosterNames)} :
                            Cardinality(L) <= MaxLate}} :
        Len(l) <= MaxThreads}

\* _populate_node_object_list (lines 416-422) from server k on: the heap
\* it leaves and the exception it ends on, None when it returns.
RECURSIVE PopulateFrom(_, _)
PopulateFrom(h, k) ==
    IF k > Len(server_list) THEN [heap |-> h, err |-> None]
    ELSE LET server == server_list[k]
             id == get_node(h, cluster.nodes, server.name)
         IN IF id = 0 THEN [heap |-> h, err |-> "NodeNotFoundException"]
            ELSE LET h1 == [h EXCEPT ![id].ram = ServerField(server.name, "ram"),
                                     ![id].server_id = ServerField(server.name, "server_id"),
                                     ![id].internal_ip = ServerField(server.name, "internal_ip")]
                 IN IF server.addrs < 2 THEN [heap |-> h1, err |-> "IndexError"]
                    ELSE PopulateFrom(
                             [h1 EXCEPT ![id].floating_ip =
                                            ServerField(server.name, "floating_ip")],
                             k + 1)

\* node.__dict__ through json.dumps and the Node(...) call of the loader
\* (lines 33-48), which passes every key but server_id.
DumpNode(n) == [f \in DOMAIN NodeDefault |-> Dumps(n[f])]
LoadNode(d) ==
    [f \in DOMAIN NodeDefault |-> IF f = "server_id" THEN NodeDefault[f] ELSE Loads(d[f])]

\* to_json (lines 96-105).
ToJson ==
    [ssh_user |-> Dumps(cluster.ssh_user),
     private_key |-> Dumps(cluster.private_key),
     key_name |-> Dumps(cluster.key_name),
     nodes |-> [i \in 1..Len(cluster.nodes) |-> DumpNode(heap[cluster.nodes[i]])],
     cluster_name |-> Dumps(cluster.cluster_name),
     master_node |-> DumpNode(heap[cluster.master_node])]

ClusterIdle ==
    /\ template_dictionary = [nodes |-> <<>>, primary |-> None]
    /\ cluster = NoCluster
    /\ heap = <<>>
    /\ cluster_pc = "idle"
    /\ cluster_raised = None
    /\ use_existing = FALSE
    /\ stack_status = None
    /\ server_list = <<>>
    /\ populate_i = 0
    /\ server_task = <<>>
    /\ written = {}
    /\ snapshot = Absent
    /\ dumped = Absent
    /\ later = NoAccess

\* A run of install() about to construct its Deploy: the template and the
\* configuration are read, no Cluster exists yet. The configuration is
\* kept in the record the constructor copies it to.
ClusterInit ==
    /\ template_dictionary \in Templates
    /\ \E c \in ClusterConfigs :
          cluster = [NoCluster EXCEPT !.ssh_user = c.ssh_user,
                                      !.private_key = c.existing_key_location,
                                      !.key_name = c.key_name,
                                      !.cluster_name = c.cluster_name]
    /\ heap = <<>>
    /\ cluster_pc = "new"
    /\ cluster_raised = None
    /\ use_existing \in BOOLEAN
    /\ stack_status = None
    /\ server_list = <<>>
    /\ populate_i = 0
    /\ server_task = <<>>
    /\ written = {}
    /\ snapshot = Absent
    /\ dumped = Absent
    /\ later = NoAccess

\* Cluster.__init__ with a template file (lines 52-88).
ClusterFromTemplate ==
    /\ cluster_pc = "new"
    /\ heap' = TemplateNodes(template_dictionary.nodes, template_dictionary.primary)
    /\ cluster' = [cluster EXCEPT !.nodes = [i \in 1..Len(heap') |-> i],
                                  !.master_node = LastPrimary(heap', Len(heap'))]
    /\ cluster_pc' = "constructed"
    /\ UNCHANGED <<template_dictionary, cluster_raised, use_existing, stack_status,
                   server_list, populate_i, server_task, written, snapshot, dumped, later>>

\* BlueprintBuilder.create_all: the kerberos section reads
\* cluster.master_node.fqdn (blueprints.py:159-160).
BlueprintsCreate ==
    /\ cluster_pc = "constructed"
    /\ IF cluster.master_node = 0
       THEN cluster_pc' = "raised" /\ cluster_raised' = "AttributeError"
       ELSE cluster_pc' = "blueprints" /\ UNCHANGED cluster_raised
    /\ UNCHANGED <<template_dictionary, cluster, heap, use_existing, stack_status,
                   server_list, populate_i, server_task, written, snapshot, dumped, later>>

\* build() up to the return of _build_stack_from_template (lines 145-175):
\* the key path is set, the stack is created and its polling ends, on
\* CREATE_COMPLETE or on a status the if/elif of lines 277-287 does not name.
ClusterBuild ==
    /\ cluster_pc = "blueprints"
    /\ ~use_existing
    /\ cluster' = [cluster EXCEPT !.private_key = KeyPath(cluster.key_name)]
    /\ \E status \in {"CREATE_COMPLETE", "ROLLBACK_IN_PROGRESS"} :
          /\ stack_status' = status
          /\ server_list' \in BuildListings(status)
    /\ populate_i' = 0
    /\ cluster_pc' = "populate"
    /\ UNCHANGED <<template_dictionary, heap, cluster_raised, use_existing, server_task,
                   written, snapshot, dumped, later>>

\* rebuild() up to the start of its threads (lines 189-201).
ClusterRebuild ==
    /\ cluster_pc = "blueprints"
    /\ use_existing
    /\ \E l \in RebuildListings :
          /\ server_list' = l
          /\ IF Empty(cluster.key_name) \/ Empty(cluster.private_key)
             THEN /\ cluster_pc' = "raised"
                  /\ cluster_raised' = "ConfigException"
                  /\ UNCHANGED server_task
             ELSE /\ server_task' = [k \in 1..Len(l) |-> [pc |-> "get_node", node |-> 0]]
                  /\ cluster_pc' = "rb_wait"
                  /\ UNCHANGED cluster_raised
    /\ UNCHANGED <<template_dictionary, cluster, heap, use_existing, stack_status,
                   populate_i, written, snapshot, dumped, later>>

\* _rebuild_server, line 226: the Node of the server's name.
ServerGetNode(k) ==
    /\ cluster_pc = "rb_wait"
    /\ server_task[k].pc = "get_node"
    /\ LET id == get_node(heap, cluster.nodes, server_list[k].name)
       IN server_task' = [server_task EXCEPT ![k] =
                             IF id = 0 THEN [pc |-> "excepted", node |-> 0]
                             ELSE [pc |-> "server_id", node |-> id]]
    /\ UNCHANGED <<template_dictionary, cluster, heap, cluster_pc, cluster_raised,
                   use_existing, stack_status, server_list, populate_i, written,
                   snapshot, dumped, later>>

\* Line 227: node.server_id = server.id.
ServerWriteId(k) ==
    /\ cluster_pc = "rb_wait"
    /\ server_task[k].pc = "server_id"
    /\ heap' = [heap EXCEPT ![server_task[k].node].server_id =
                                ServerField(server_list[k].name, "server_id")]
    /\ written' = written \cup {[task |-> k, node |-> server_task[k].node,
                                 field |-> "server_id"]}
    /\ server_task' = [server_task EXCEPT ![k].pc = "floating_ip"]
    /\ UNCHANGED <<template_dictionary, cluster, cluster_pc, cluster_raised,
                   use_existing, stack_status, server_list, populate_i, snapshot, dumped, later>>

\* Line 228: node.floating_ip = server.networks.values()[0][1], IndexError
\* when the server has one address.
ServerWriteFip(k) ==
    /\ cluster_pc = "rb_wait"
    /\ server_task[k].pc = "floating_ip"
    /\ IF server_list[k].addrs < 2
       THEN /\ server_task' = [server_task EXCEPT ![k].pc = "excepted"]
            /\ UNCHANGED <<heap, written>>
       ELSE /\ heap' = [heap EXCEPT ![server_task[k].node].floating_ip =
                                        ServerField(server_list[k].name, "floating_ip")]
            /\ written' = written \cup {[task |-> k, node |-> server_task[k].node,
                                         field |-> "floating_ip"]}
            /\ server_task' = [server_task EXCEPT ![k].pc = "rebuild_node"]
    /\ UNCHANGED <<template_dictionary, cluster, cluster_pc, cluster_raised,
                   use_existing, stack_status, server_list, populate_i, snapshot, dumped, later>>

\* Lines 230-236: rebuild_node and unmount, which write no Node; the task
\* returns or ends on their exception.
ServerRebuildNode(k) ==
    /\ cluster_pc = "rb_wait"
    /\ server_task[k].pc = "rebuild_node"
    /\ \E out \in {"ended", "excepted"} :
          server_task' = [server_task EXCEPT ![k].pc = out]
    /\ UNCHANGED <<template_dictionary, cluster, heap, cluster_pc, cluster_raised,
                   use_existing, stack_status, server_list, populate_i, written,
                   snapshot, dumped, later>>

\* The wait loop of rebuild() (lines 204-212): the process exits once a
\* task has set the flag, populate follows when every task has returned.
ClusterRebuildWait ==
    /\ cluster_pc = "rb_wait"
    /\ IF \E k \in DOMAIN server_task : server_task[k].pc = "excepted"
       THEN cluster_pc' = "exited"
       ELSE /\ \A k \in DOMAIN server_task : server_task[k].pc = "ended"
            /\ cluster_pc' = "populate"
    /\ populate_i' = 0
    /\ UNCHANGED <<template_dictionary, cluster, heap, cluster_raised, use_existing,
                   stack_status, server_list, server_task, written, snapshot, dumped, later>>

\* One try of retry(self._populate_node_object_list, 5, (ConnectFailure,
\* IndexError)) (lines 178 and 215), and line 216 after rebuild's.
ClusterPopulate ==
    /\ cluster_pc = "populate"
    /\ LET r == PopulateFrom(heap, 1)
       IN /\ heap' = r.heap
          /\ IF r.err = None
             THEN /\ cluster_pc' = "provisioned"
                  /\ cluster' = IF use_existing
                                THEN [cluster EXCEPT !.private_key = KeyPath(cluster.key_name)]
                                ELSE cluster
                  /\ UNCHANGED <<populate_i, cluster_raised>>
             ELSE IF r.err = "IndexError" /\ populate_i < ost_retries - 1
             THEN /\ populate_i' = populate_i + 1
                  /\ UNCHANGED <<cluster, cluster_pc, cluster_raised>>
             ELSE /\ cluster_pc' = "raised"
                  /\ cluster_raised' = r.err
                  /\ UNCHANGED <<cluster, populate_i>>
    /\ UNCHANGED <<template_dictionary, use_existing, stack_status, server_list,
                   server_task, written, snapshot, dumped, later>>

\* Nova reports the floating address of a server.
NovaAssociate ==
    /\ cluster_pc \in {"populate", "rb_wait"}
    /\ \E k \in 1..Len(server_list) :
          /\ server_list[k].addrs = 1
          /\ server_list' = [server_list EXCEPT ![k].addrs = 2]
    /\ UNCHANGED <<template_dictionary, cluster, heap, cluster_pc, cluster_raised,
                   use_existing, stack_status, populate_i, server_task, written,
                   snapshot, dumped, later>>

\* install() writes cluster.json (install.py:44-46). The master node is
\* set: create_all has read it.
ClusterPersist ==
    /\ cluster_pc = "provisioned"
    /\ snapshot' = ToJson
    /\ dumped' = [ssh_user |-> cluster.ssh_user, private_key |-> cluster.private_key,
                  key_name |-> cluster.key_name, cluster_name |-> cluster.cluster_name,
                  nodes |-> [i \in 1..Len(cluster.nodes) |-> heap[cluster.nodes[i]]],
                  master_node |-> heap[cluster.master_node]]
    /\ cluster_pc' = "persisted"
    /\ UNCHANGED <<template_dictionary, cluster, heap, cluster_raised, use_existing,
                   stack_status, server_list, populate_i, server_task, written, later>>

\* A loader that takes for master_node the primary Node of the list.
ClusterFromJson_shared_master ==
    /\ cluster_pc = "persisted"
    /\ heap' = [i \in 1..Len(snapshot.nodes) |-> LoadNode(snapshot.nodes[i])]
    /\ cluster' = [ssh_user |-> Loads(snapshot.ssh_user),
                   private_key |-> Loads(snapshot.private_key),
                   key_name |-> Loads(snapshot.key_name),
                   cluster_name |-> Loads(snapshot.cluster_name),
                   nodes |-> [i \in 1..Len(snapshot.nodes) |-> i],
                   master_node |-> LastPrimary(heap', Len(heap'))]
    /\ cluster_pc' = "loaded"
    /\ UNCHANGED <<template_dictionary, cluster_raised, use_existing, stack_status,
                   server_list, populate_i, server_task, written, snapshot, dumped, later>>

\* Cluster.__init__ with a json file (lines 26-49), in the process of a
\* standalone phase (chef.py:280, ambari.py:252): the nodes of the list,
\* and one more Node for master_node.
ClusterFromJson ==
    /\ cluster_pc = "persisted"
    /\ heap' = [i \in 1..Len(snapshot.nodes) |-> LoadNode(snapshot.nodes[i])]
               \o <<LoadNode(snapshot.master_node)>>
    /\ cluster' = [ssh_user |-> Loads(snapshot.ssh_user),
                   private_key |-> Loads(snapshot.private_key),
                   key_name |-> Loads(snapshot.key_name),
                   cluster_name |-> Loads(snapshot.cluster_name),
                   nodes |-> [i \in 1..Len(snapshot.nodes) |-> i],
                   master_node |-> Len(snapshot.nodes) + 1]
    /\ cluster_pc' = "loaded"
    /\ UNCHANGED <<template_dictionary, cluster_raised, use_existing, stack_status,
                   server_list, populate_i, server_task, written, snapshot, dumped, later>>

\* The accesses of the later phases to the Cluster. The control state of
\* the convergence tasks is the Chef part's; here a step of a task is an
\* access to a Node and to the credentials, and `later` is the last one.
\* Chef(deploy).converge() starts a task for every node of the roster
\* (install.py:49-50, chef.py:280-288 and 107-115).
ChefConverge ==
    /\ cluster_pc \in {"persisted", "loaded"}
    /\ cluster_pc' = "converge"
    /\ UNCHANGED <<template_dictionary, cluster, heap, cluster_raised, use_existing,
                   stack_status, server_list, populate_i, server_task, written,
                   snapshot, dumped, later>>

\* One pass of the task of roster node i through its loop (chef.py:173-222):
\* ssh and the knife command go to node.floating_ip with the cluster's user
\* and key, and the command exits with 0 or not. A node without an address
\* is not reached, the SSHException ends the process through the flag.
ConvergeKnife(i) ==
    /\ cluster_pc = "converge"
    /\ LET id == cluster.nodes[i] IN
       \E returncode \in {0, 1} :
          /\ later' = [op |-> IF Empty(heap[id].floating_ip) THEN "ssh_failed"
                              ELSE IF returncode = 0 THEN "knife_ok" ELSE "knife_failed",
                       node |-> id, read |-> heap[id].floating_ip]
          /\ cluster_pc' = IF Empty(heap[id].floating_ip) THEN "exited" ELSE "converge"
    /\ UNCHANGED <<template_dictionary, cluster, heap, cluster_raised, use_existing,
                   stack_status, server_list, populate_i, server_task, written,
                   snapshot, dumped>>

\* A rebuild on failure that takes the identifiers of the server again, as
\* _rebuild_server does.
RebuildAndReformat_refresh(i) ==
    /\ cluster_pc = "converge"
    /\ later.op = "knife_failed"
    /\ later.node = cluster.nodes[i]
    /\ LET id == cluster.nodes[i] IN
       /\ later' = [op |-> "rebuild", node |-> id, read |-> heap[id].server_id]
       /\ heap' = [heap EXCEPT ![id].server_id = ServerField(heap[id].name.v, "server_id")]
       /\ cluster_pc' \in {"converge", "exited"}
    /\ UNCHANGED <<template_dictionary, cluster, cluster_raised, use_existing,
                   stack_status, server_list, populate_i, server_task, written,
                   snapshot, dumped>>

\* _rebuild_and_reformat after a failed run (chef.py:222-227, 267-274):
\* rebuild_node asks nova for node.server_id (openstack.py:41-57), unmount
\* connects to node.floating_ip. Both return, or raise and end the process;
\* no server has the id None.
RebuildAndReformat(i) ==
    /\ cluster_pc = "converge"
    /\ later.op = "knife_failed"
    /\ later.node = cluster.nodes[i]
    /\ LET id == cluster.nodes[i] IN
       /\ later' = [op |-> "rebuild", node |-> id, read |-> heap[id].server_id]
       /\ cluster_pc' \in IF Empty(heap[id].server_id) THEN {"exited"}
                          ELSE {"converge", "exited"}
    /\ UNCHANGED <<template_dictionary, cluster, heap, cluster_raised, use_existing,
                   stack_status, server_list, populate_i, server_task, written,
                   snapshot, dumped>>

\* The end of converge() (chef.py:117-129): every task returned after a
\* run that exited with 0, or the budget of a task ended on a failed run.
ConvergeEnd ==
    /\ cluster_pc = "converge"
    /\ later.op \in {"knife_ok", "knife_failed"}
    /\ cluster_pc' = IF later.op = "knife_ok" THEN "converged" ELSE "exited"
    /\ UNCHANGED <<template_dictionary, cluster, heap, cluster_raised, use_existing,
                   stack_status, server_list, populate_i, server_task, written,
                   snapshot, dumped, later>>

\* Ambari(deploy).install() (ambari.py:24-28, 46-65): the address of the
\* server is master_node.floating_ip, read through the attribute.
AmbariInstall ==
    /\ cluster_pc = "converged"
    /\ later' = [op |-> "ambari", node |-> cluster.master_node,
                 read |-> heap[cluster.master_node].floating_ip]
    /\ \/ cluster_pc' = "installed" /\ UNCHANGED cluster_raised
       \/ cluster_pc' = "raised" /\ cluster_raised' = "AmbariException"
    /\ UNCHANGED <<template_dictionary, cluster, heap, use_existing, stack_status,
                   server_list, populate_i, server_task, written, snapshot, dumped>>

(***************************************************************************)
(* The deletion of the floating IPs by one thread per address              *)
(* (_delete_floating_ip_list and _delete_floating_ip, openstack.py:359-405)*)
(* on the Openstack object of the parts above: ost_pc, thread_exception    *)
(* and the floating IPs of the project are its variables.                  *)
(***************************************************************************)
VARIABLES floating_ip_list, delete_threads, fip_thread_alive, fip_task

fipVars == <<floating_ip_list, delete_threads, fip_thread_alive, fip_task>>

\* The variables of the Openstack object the deletion does not use.
fipRest == <<deploy_stack_name, stacks, servers, volumes, ostLocals, ost_raised,
             delete_calls, cleanup_runs>>

\* A handler that takes an address that is gone for a failure as well.
DeleteFailed_notfound(out) == out # "ok"

\* The except clauses of lines 400-403: NotFound is logged as a warning,
\* every other exception sets the flag.
DeleteFailed(out) == out \notin {"ok", "NotFound"}

NoFipTask == [pc |-> "none", alive |-> FALSE, i |-> 0, out |-> None]

FipIdle ==
    /\ floating_ip_list = {}
    /\ delete_threads = {}
    /\ fip_thread_alive = FALSE
    /\ fip_task = [ip \in 1..MaxFips |-> NoFipTask]

\* An Openstack object about to run _delete_floating_ip_list on a project
\* with some floating IPs.
FipInit ==
    /\ floating_ip_list = {}
    /\ delete_threads = {}
    /\ fip_thread_alive = FALSE
    /\ fip_task = [ip \in 1..MaxFips |-> NoFipTask]
    /\ floatingips \in SUBSET (1..MaxFips)
    /\ ost_pc = "fip_list"
    /\ thread_exception = FALSE
    /\ ost_raised = NoError
    /\ deploy_stack_name = None
    /\ stacks = <<>>
    /\ servers = 0
    /\ volumes = 0
    /\ cleanup_from = None
    /\ stack_list = <<>>
    /\ destroy_i = 0
    /\ delete_i = 0
    /\ check_i = 0
    /\ uid = 0
    /\ stack = NoStack
    /\ del_stack = NoStack
    /\ delete_calls = {}
    /\ cleanup_runs = 0

\* Lines 370-375: the addresses are listed, one thread per address is
\* created and started.
FipStart ==
    /\ ost_pc = "fip_list"
    /\ floating_ip_list' = floatingips
    /\ delete_threads' = floatingips
    /\ fip_task' = [ip \in 1..MaxFips |->
                       IF ip \in floatingips
                       THEN [NoFipTask EXCEPT !.pc = "delete", !.alive = TRUE]
                       ELSE fip_task[ip]]
    /\ fip_thread_alive' = TRUE
    /\ ost_pc' = "fip_scan"
    /\ UNCHANGED <<floatingips, thread_exception, fipRest>>

\* Lines 378-381: one pass over the threads.
FipScan ==
    /\ ost_pc = "fip_scan"
    /\ fip_thread_alive' = \E ip \in delete_threads : fip_task[ip].alive
    /\ ost_pc' = "fip_check"
    /\ UNCHANGED <<floating_ip_list, delete_threads, fip_task, floatingips,
                   thread_exception, fipRest>>

\* Lines 382-384 and the loop test of line 377.
FipCheck ==
    /\ ost_pc = "fip_check"
    /\ ost_pc' = IF thread_exception THEN "exited"
                 ELSE IF fip_thread_alive THEN "fip_scan" ELSE "fip_returned"
    /\ UNCHANGED <<fipVars, floatingips, thread_exception, fipRest>>

\* One call of neutron.delete_floatingip inside retry (line 399) and, when
\* retry ends, the handlers of lines 400-403.  The threads run while the
\* process does.
FipDelete(ip) ==
    /\ ost_pc \in {"fip_scan", "fip_check", "fip_returned"}
    /\ fip_task[ip].pc = "delete"
    /\ \E out \in {"ok", "NotFound", "ConnectFailure", "Conflict"} :
          /\ out = "ok" => ip \in floatingips
          /\ out = "NotFound" => ip \notin floatingips
          /\ floatingips' = IF out = "ok" THEN floatingips \ {ip} ELSE floatingips
          /\ IF out = "ConnectFailure" /\ fip_task[ip].i < ost_retries - 1
             THEN /\ fip_task' = [fip_task EXCEPT ![ip].i = @ + 1]
                  /\ UNCHANGED thread_exception
             ELSE /\ fip_task' = [fip_task EXCEPT ![ip].pc = "log", ![ip].out = out]
                  /\ thread_exception' = (thread_exception \/ DeleteFailed(out))
    /\ UNCHANGED <<floating_ip_list, delete_threads, fip_thread_alive, ost_pc, fipRest>>

\* Line 405 and the end of the thread.
FipTaskEnd(ip) ==
    /\ ost_pc \in {"fip_scan", "fip_check", "fip_returned"}
    /\ fip_task[ip].pc = "log"
    /\ fip_task' = [fip_task EXCEPT ![ip].pc = "ended", ![ip].alive = FALSE]
    /\ UNCHANGED <<floating_ip_list, delete_threads, fip_thread_alive, floatingips,
                   ost_pc, thread_exception, fipRest>>

\* An address leaves the project while the deletion runs.
FipVanish ==
    /\ ost_pc \in {"fip_list", "fip_scan", "fip_check"}
    /\ \E ip \in floatingips : floatingips' = floatingips \ {ip}
    /\ UNCHANGED <<fipVars, ost_pc, thread_exception, fipRest>>

(***************************************************************************)
(* Specifications                                                          *)
(***************************************************************************)
vars == <<retryVars, ostVars, ambariVars, chefVars, installVars, rebuildVars,
          clusterVars, fipVars>>

RetryNext ==
    \/ RetryCall /\ UNCHANGED <<ostVars, ambariVars, chefVars, installVars, rebuildVars, clusterVars, fipVars>>
    \/ RetrySleep /\ UNCHANGED <<ostVars, ambariVars, chefVars, installVars, rebuildVars, clusterVars, fipVars>>
    \/ RetryFallThrough /\ UNCHANGED <<ostVars, ambariVars, chefVars, installVars, rebuildVars, clusterVars, fipVars>>

InitRetry == RetryInit /\ OstIdle /\ AmbariIdle /\ ChefIdle /\ InstallIdle /\ RebuildIdle /\ ClusterIdle /\ FipIdle

SpecRetry == InitRetry /\ [][RetryNext]_vars

OstNext ==
    \/ BuildStart /\ UNCHANGED <<retryVars, ambariVars, chefVars, installVars, rebuildVars, clusterVars, fipVars>>
    \/ HarnessCleanup /\ UNCHANGED <<retryVars, ambariVars, chefVars, installVars, rebuildVars, clusterVars, fipVars>>
    \/ CleanupList /\ UNCHANGED <<retryVars, ambariVars, chefVars, installVars, rebuildVars, clusterVars, fipVars>>
    \/ DestroyDeleteFips /\ UNCHANGED <<retryVars, ambariVars, chefVars, installVars, rebuildVars, clusterVars, fipVars>>
    \/ DestroyDelete /\ UNCHANGED <<retryVars, ambariVars, chefVars, installVars, rebuildVars, clusterVars, fipVars>>
    \/ DestroyGet /\ UNCHANGED <<retryVars, ambariVars, chefVars, installVars, rebuildVars, clusterVars, fipVars>>
    \/ DestroySleep /\ UNCHANGED <<retryVars, ambariVars, chefVars, installVars, rebuildVars, clusterVars, fipVars>>
    \/ CleanupCheck /\ UNCHANGED <<retryVars, ambariVars, chefVars, installVars, rebuildVars, clusterVars, fipVars>>
    \/ BuildCreate /\ UNCHANGED <<retryVars, ambariVars, chefVars, installVars, rebuildVars, clusterVars, fipVars>>
    \/ BuildGet /\ UNCHANGED <<retryVars, ambariVars, chefVars, installVars, rebuildVars, clusterVars, fipVars>>
    \/ BuildSleep /\ UNCHANGED <<retryVars, ambariVars, chefVars, installVars, rebuildVars, clusterVars, fipVars>>
    \/ BuildFailed /\ UNCHANGED <<retryVars, ambariVars, chefVars, installVars, rebuildVars, clusterVars, fipVars>>
    \/ BuildPopulate /\ UNCHANGED <<retryVars, ambariVars, chefVars, installVars, rebuildVars, clusterVars, fipVars>>
    \/ HeatCreateStep /\ UNCHANGED <<retryVars, ambariVars, chefVars, installVars, rebuildVars, clusterVars, fipVars>>
    \/ HeatDeleteStep /\ UNCHANGED <<retryVars, ambariVars, chefVars, installVars, rebuildVars, clusterVars, fipVars>>
    \/ HeatReap /\ UNCHANGED <<retryVars, ambariVars, chefVars, installVars, rebuildVars, clusterVars, fipVars>>

InitOst == OstInit /\ RetryIdle /\ AmbariIdle /\ ChefIdle /\ InstallIdle /\ RebuildIdle /\ ClusterIdle /\ FipIdle

SpecOst == InitOst /\ [][OstNext]_vars

AmbariNext ==
    \/ InstallStart /\ UNCHANGED <<retryVars, ostVars, chefVars, installVars, rebuildVars, clusterVars, fipVars>>
    \/ PutStack /\ UNCHANGED <<retryVars, ostVars, chefVars, installVars, rebuildVars, clusterVars, fipVars>>
    \/ PutUtils /\ UNCHANGED <<retryVars, ostVars, chefVars, installVars, rebuildVars, clusterVars, fipVars>>
    \/ PostBlueprint /\ UNCHANGED <<retryVars, ostVars, chefVars, installVars, rebuildVars, clusterVars, fipVars>>
    \/ PostHostmapping /\ UNCHANGED <<retryVars, ostVars, chefVars, installVars, rebuildVars, clusterVars, fipVars>>
    \/ MonitorLoop /\ UNCHANGED <<retryVars, ostVars, chefVars, installVars, rebuildVars, clusterVars, fipVars>>
    \/ MonitorSleep /\ UNCHANGED <<retryVars, ostVars, chefVars, installVars, rebuildVars, clusterVars, fipVars>>
    \/ MonitorGet /\ UNCHANGED <<retryVars, ostVars, chefVars, installVars, rebuildVars, clusterVars, fipVars>>
    \/ ChangeAdminPassword /\ UNCHANGED <<retryVars, ostVars, chefVars, installVars, rebuildVars, clusterVars, fipVars>>
    \/ SetRootMysqlPassword /\ UNCHANGED <<retryVars, ostVars, chefVars, installVars, rebuildVars, clusterVars, fipVars>>

InitAmbari == AmbariInit /\ RetryIdle /\ OstIdle /\ ChefIdle /\ InstallIdle /\ RebuildIdle /\ ClusterIdle /\ FipIdle

SpecAmbari == InitAmbari /\ [][AmbariNext]_vars

ChefNext ==
    \/ ConvergeStart /\ UNCHANGED <<retryVars, ostVars, ambariVars, installVars, rebuildVars, clusterVars, fipVars>>
    \/ ConvergeScan /\ UNCHANGED <<retryVars, ostVars, ambariVars, installVars, rebuildVars, clusterVars, fipVars>>
    \/ ConvergeCheck /\ UNCHANGED <<retryVars, ostVars, ambariVars, installVars, rebuildVars, clusterVars, fipVars>>
    \/ ConvergeExit /\ UNCHANGED <<retryVars, ostVars, ambariVars, installVars, rebuildVars, clusterVars, fipVars>>
    \/ \E n \in ClusterNodes : TaskSsh(n) /\ UNCHANGED <<retryVars, ostVars, ambariVars, installVars, rebuildVars, clusterVars, fipVars>>
    \/ \E n \in ClusterNodes : TaskLoop(n) /\ UNCHANGED <<retryVars, ostVars, ambariVars, installVars, rebuildVars, clusterVars, fipVars>>
    \/ \E n \in ClusterNodes : TaskInstall(n) /\ UNCHANGED <<retryVars, ostVars, ambariVars, installVars, rebuildVars, clusterVars, fipVars>>
    \/ \E n \in ClusterNodes : TaskKnife(n) /\ UNCHANGED <<retryVars, ostVars, ambariVars, installVars, rebuildVars, clusterVars, fipVars>>
    \/ \E n \in ClusterNodes : TaskRebuild(n) /\ UNCHANGED <<retryVars, ostVars, ambariVars, installVars, rebuildVars, clusterVars, fipVars>>
    \/ \E n \in ClusterNodes : TaskEnd(n) /\ UNCHANGED <<retryVars, ostVars, ambariVars, installVars, rebuildVars, clusterVars, fipVars>>
    \/ InstallSetup /\ UNCHANGED <<retryVars, ostVars, ambariVars, rebuildVars, clusterVars, fipVars>>
    \/ InstallProvision /\ UNCHANGED <<retryVars, ostVars, ambariVars, rebuildVars, clusterVars, fipVars>>
    \/ InstallPersist /\ UNCHANGED <<retryVars, ostVars, ambariVars, rebuildVars, clusterVars, fipVars>>
    \/ InstallConverge /\ UNCHANGED <<retryVars, ostVars, ambariVars, rebuildVars, clusterVars, fipVars>>
    \/ InstallConverged /\ UNCHANGED <<retryVars, ostVars, ambariVars, rebuildVars, clusterVars, fipVars>>
    \/ InstallAmbari /\ UNCHANGED <<retryVars, ostVars, ambariVars, rebuildVars, clusterVars, fipVars>>

InitChef == ChefInit /\ RetryIdle /\ OstIdle /\ AmbariIdle /\ RebuildIdle /\ ClusterIdle /\ FipIdle

SpecChef == InitChef /\ [][ChefNext]_vars

RebuildNext ==
    \/ RebuildStart /\ UNCHANGED <<retryVars, ambariVars, chefVars, installVars, clusterVars, fipVars>>
    \/ RebuildScan /\ UNCHANGED <<retryVars, ambariVars, chefVars, installVars, clusterVars, fipVars>>
    \/ RebuildCheck /\ UNCHANGED <<retryVars, ambariVars, chefVars, installVars, clusterVars, fipVars>>
    \/ RebuildExit /\ UNCHANGED <<retryVars, ambariVars, chefVars, installVars, clusterVars, fipVars>>
    \/ RebuildPopulate /\ UNCHANGED <<retryVars, ambariVars, chefVars, installVars, clusterVars, fipVars>>
    \/ \E s \in NovaServers : RbGetNode(s) /\ UNCHANGED <<retryVars, ambariVars, chefVars, installVars, clusterVars, fipVars>>
    \/ \E s \in NovaServers : RbTrigger(s) /\ UNCHANGED <<retryVars, ambariVars, chefVars, installVars, clusterVars, fipVars>>
    \/ \E s \in NovaServers : RbGet(s) /\ UNCHANGED <<retryVars, ambariVars, chefVars, installVars, clusterVars, fipVars>>
    \/ \E s \in NovaServers : RbPoll1(s) /\ UNCHANGED <<retryVars, ambariVars, chefVars, installVars, clusterVars, fipVars>>
    \/ \E s \in NovaServers : RbPoll2(s) /\ UNCHANGED <<retryVars, ambariVars, chefVars, installVars, clusterVars, fipVars>>
    \/ \E s \in NovaServers : RbUnmount(s) /\ UNCHANGED <<retryVars, ambariVars, chefVars, installVars, clusterVars, fipVars>>
    \/ \E s \in NovaServers : RbEnd(s) /\ UNCHANGED <<retryVars, ambariVars, chefVars, installVars, clusterVars, fipVars>>
    \/ \E s \in NovaServers : NovaStep(s) /\ UNCHANGED <<retryVars, ambariVars, chefVars, installVars, clusterVars, fipVars>>
    \/ Tick /\ UNCHANGED <<retryVars, ambariVars, chefVars, installVars, clusterVars, fipVars>>

InitRebuild == RebuildInit /\ RetryIdle /\ AmbariIdle /\ ChefIdle /\ InstallIdle /\ ClusterIdle /\ FipIdle

SpecRebuild == InitRebuild /\ [][RebuildNext]_vars

ClusterNext ==
    \/ ClusterFromTemplate /\ UNCHANGED <<retryVars, ostVars, ambariVars, chefVars, installVars, rebuildVars, fipVars>>
    \/ BlueprintsCreate /\ UNCHANGED <<retryVars, ostVars, ambariVars, chefVars, installVars, rebuildVars, fipVars>>
    \/ ClusterBuild /\ UNCHANGED <<retryVars, ostVars, ambariVars, chefVars, installVars, rebuildVars, fipVars>>
    \/ ClusterRebuild /\ UNCHANGED <<retryVars, ostVars, ambariVars, chefVars, installVars, rebuildVars, fipVars>>
    \/ \E k \in DOMAIN server_task : ServerGetNode(k) /\ UNCHANGED <<retryVars, ostVars, ambariVars, chefVars, installVars, rebuildVars, fipVars>>
    \/ \E k \in DOMAIN server_task : ServerWriteId(k) /\ UNCHANGED <<retryVars, ostVars, ambariVars, chefVars, installVars, rebuildVars, fipVars>>
    \/ \E k \in DOMAIN server_task : ServerWriteFip(k) /\ UNCHANGED <<retryVars, ostVars, ambariVars, chefVars, installVars, rebuildVars, fipVars>>
    \/ \E k \in DOMAIN server_task : ServerRebuildNode(k) /\ UNCHANGED <<retryVars, ostVars, ambariVars, chefVars, installVars, rebuildVars, fipVars>>
    \/ ClusterRebuildWait /\ UNCHANGED <<retryVars, ostVars, ambariVars, chefVars, installVars, rebuildVars, fipVars>>
    \/ ClusterPopulate /\ UNCHANGED <<retryVars, ostVars, ambariVars, chefVars, installVars, rebuildVars, fipVars>>
    \/ NovaAssociate /\ UNCHANGED <<retryVars, ostVars, ambariVars, chefVars, installVars, rebuildVars, fipVars>>
    \/ ClusterPersist /\ UNCHANGED <<retryVars, ostVars, ambariVars, chefVars, installVars, rebuildVars, fipVars>>
    \/ ClusterFromJson /\ UNCHANGED <<retryVars, ostVars, ambariVars, chefVars, installVars, rebuildVars, fipVars>>
    \/ ChefConverge /\ UNCHANGED <<retryVars, ostVars, ambariVars, chefVars, installVars, rebuildVars, fipVars>>
    \/ \E i \in 1..Len(cluster.nodes) : ConvergeKnife(i) /\ UNCHANGED <<retryVars, ostVars, ambariVars, chefVars, installVars, rebuildVars, fipVars>>
    \/ \E i \in 1..Len(cluster.nodes) : RebuildAndReformat(i) /\ UNCHANGED <<retryVars, ostVars, ambariVars, chefVars, installVars, rebuildVars, fipVars>>
    \/ ConvergeEnd /\ UNCHANGED <<retryVars, ostVars, ambariVars, chefVars, installVars, rebuildVars, fipVars>>
    \/ AmbariInstall /\ UNCHANGED <<retryVars, ostVars, ambariVars, chefVars, installVars, rebuildVars, fipVars>>

InitCluster ==
    ClusterInit /\ RetryIdle /\ OstIdle /\ AmbariIdle /\ ChefIdle /\ InstallIdle /\ RebuildIdle /\ FipIdle

SpecCluster == InitCluster /\ [][ClusterNext]_vars

FipNext ==
    \/ FipStart /\ UNCHANGED <<retryVars, ambariVars, chefVars, installVars, rebuildVars, clusterVars>>
    \/ FipScan /\ UNCHANGED <<retryVars, ambariVars, chefVars, installVars, rebuildVars, clusterVars>>
    \/ FipCheck /\ UNCHANGED <<retryVars, ambariVars, chefVars, installVars, rebuildVars, clusterVars>>
    \/ \E ip \in 1..MaxFips : FipDelete(ip) /\ UNCHANGED <<retryVars, ambariVars, chefVars, installVars, rebuildVars, clusterVars>>
    \/ \E ip \in 1..MaxFips : FipTaskEnd(ip) /\ UNCHANGED <<retryVars, ambariVars, chefVars, installVars, rebuildVars, clusterVars>>
    \/ FipVanish /\ UNCHANGED <<retryVars, ambariVars, chefVars, installVars, rebuildVars, clusterVars>>

InitFip ==
    FipInit /\ RetryIdle /\ AmbariIdle /\ ChefIdle /\ InstallIdle /\ RebuildIdle /\ ClusterIdle

SpecFip == InitFip /\ [][FipNext]_vars

\* The two coordinators that wait for their tasks: converge() and rebuild().
PhasesNext ==
    \/ ChefNext
    \/ RebuildNext

InitPhases == InitChef \/ InitRebuild

SpecPhases == InitPhases /\ [][PhasesNext]_vars

(***************************************************************************)
(* Properties                                                              *)
(***************************************************************************)

\* The error of try k is one that the `exceptions` argument lists.
Retryable(k) == history[k].kind \in exceptions \/ "Exception" \in exceptions

\* C1: for tries >= 1, retry invokes the operation at most `tries` times,
\* has slept exactly (invocations - 1) times when it ends, and an error
\* outside the retryable set is the last invocation and is raised at once.
C1_RetryBounded ==
    tries >= 1 =>
        /\ Len(history) <= tries
        /\ (retry_pc \in {"returned", "raised"} => sleeps = Len(history) - 1)
        /\ \A k \in 1..Len(history) :
              (~history[k].ok /\ ~Retryable(k)) =>
                  /\ k = Len(history)
                  /\ retry_pc = "raised"
                  /\ retry_out = [type |-> "raise", kind |-> history[k].kind,
                                  msg |-> history[k].msg, attempt |-> k]

\* A retry of three tries that ended on the second with an error outside the
\* retryable set, after one sleep.
C1_Witness ==
    /\ tries = 3
    /\ Len(history) = 2
    /\ ~history[2].ok
    /\ ~Retryable(2)
    /\ retry_pc = "raised"
    /\ sleeps = 1

\* C2: when every one of the `tries` tries raised a retryable error, retry
\* raises the error of the last try and does not return; when a try
\* succeeded, it is the last one and retry returns its result.
C2_RetryOutcome ==
    tries >= 1 =>
        /\ (/\ Len(history) = tries
            /\ \A k \in 1..tries : ~history[k].ok /\ Retryable(k))
           => /\ retry_pc = "raised"
              /\ retry_out = [type |-> "raise", kind |-> history[tries].kind,
                              msg |-> history[tries].msg, attempt |-> tries]
        /\ \A k \in 1..Len(history) :
              history[k].ok =>
                  /\ k = Len(history)
                  /\ retry_pc = "returned"
                  /\ retry_out = [type |-> "return", val |-> history[k].val]
        /\ (retry_pc = "returned" => Len(history) >= 1 /\ history[Len(history)].ok)

\* Three retryable errors in three tries, the last one different from the
\* first, and the last one raised.
C2_Witness ==
    /\ tries = 3
    /\ Len(history) = 3
    /\ \A k \in 1..3 : ~history[k].ok /\ Retryable(k)
    /\ history[1] # history[3]
    /\ retry_pc = "raised"

\* C3: the polling of the created stack has ended only if the status last
\* observed is CREATE_COMPLETE or CREATE_FAILED.
C3_PollingEndsOnTerminalStatus ==
    (uid # 0 /\ ost_pc \notin {"b_get", "b_sleep"}) =>
        stack.stack_status \in {"CREATE_COMPLETE", "CREATE_FAILED"}

\* C4: when the status polled is CREATE_FAILED, build() does not complete,
\* and an error it raises is the HeatException with the status reason of the
\* stack, raised after a cleanup pass.
C4_FailedRaisesHeatException ==
    stack.stack_status = "CREATE_FAILED" =>
        /\ ost_pc # "done"
        /\ ost_pc = "raised" =>
              /\ cleanup_from = "failed"
              /\ ost_raised = [kind |-> "HeatException", msg |-> stack.stack_status_reason]

\* The cleanup called directly has listed exactly one stack.
OneStackListed ==
    /\ cleanup_from = "harness"
    /\ ost_pc # "c_list"
    /\ Len(stack_list) = 1

\* C5: a cleanup that found exactly one stack, of a foreign name, issues no
\* delete call and ends by raising the conflict error.
C5_ForeignStackConflict ==
    (OneStackListed /\ Lower(stacks[stack_list[1]].stack_name) # Lower(deploy_stack_name)) =>
        /\ delete_calls = {}
        /\ ost_pc \in {"harness", "raised"} =>
              /\ ost_pc = "raised"
              /\ ost_raised.kind = "ExistingNonRedstackResourcesException"

\* C6: a cleanup that found exactly one stack, of the deployment's stack
\* name, and returned has issued the delete of that stack and leaves no
\* floating IP, server or volume.
C6_MatchingStackDeleted ==
    (/\ OneStackListed
     /\ stacks[stack_list[1]].stack_name = deploy_stack_name
     /\ ost_pc = "harness") =>
        /\ <<"stack", stack_list[1]>> \in delete_calls
        /\ floatingips = {}
        /\ servers = 0
        /\ volumes = 0

EmptyProject == stacks = <<>> /\ floatingips = {} /\ servers = 0 /\ volumes = 0

DirectCleanup == ost_pc = "harness" \/ cleanup_from = "harness"

\* C7: cleanup called on an empty project, once or twice in a row, issues no
\* delete call, raises nothing, succeeds at its first check and leaves the
\* project as it was.
C7_CleanupIdempotentOnEmpty ==
    /\ []((DirectCleanup /\ EmptyProject) =>
            /\ delete_calls = {}
            /\ ost_pc \in {"harness", "c_list", "c_check"}
            /\ check_i = 0
            /\ ost_raised = NoError)
    /\ [][(DirectCleanup /\ EmptyProject) => project' = project]_vars

\* Two cleanups in a row have returned on an empty project.
C7_Witness ==
    /\ EmptyProject
    /\ ost_pc = "harness"
    /\ cleanup_runs = 2

KnownStatuses == {"TIMEDOUT", "COMPLETED", "PENDING", "IN_PROGRESS"}

\* The request monitoring has ended in success: install() is at, or past,
\* the change of the admin password.
MonitoringSucceeded ==
    \/ ambari_pc \in {"change_password", "mysql_password", "done"}
    \/ ambari_pc = "raised" /\ ambari_raised.at \in {"change_password", "mysql_password"}

\* The last body polled has a status outside the four known ones.
UnknownStatusPolled == response.request_status \notin (KnownStatuses \cup {None})

\* C8: a polled status outside the four known ones with a percentage of 95
\* or more ends the monitoring in success, with the warning logged.
C8_GraceThresholdSucceeds ==
    (UnknownStatusPolled /\ response.progress_percent >= 95) =>
        /\ "warning" \in ambari_log
        /\ MonitoringSucceeded

\* C9: a polled status outside the four known ones with a percentage below
\* 95 raises AmbariException with the body, on that poll and without a
\* retry; no GET follows.
C9_BelowThresholdRaises ==
    /\ []((UnknownStatusPolled /\ response.progress_percent < 95) =>
            /\ ambari_pc = "raised"
            /\ ambari_raised = [kind |-> "AmbariException", msg |-> response,
                                at |-> "monitor_get"])
    /\ [][ambari_pc = "raised" => gets' = gets]_vars

\* A poll of a FAILED request at 94 percent has raised.
C9_Witness ==
    /\ response = [request_status |-> "FAILED", progress_percent |-> 94]
    /\ ambari_pc = "raised"
    /\ gets >= 1

\* C10: COMPLETED ends the monitoring in success at any percentage;
\* TIMEDOUT, PENDING and IN_PROGRESS at any percentage leave install() in
\* the polling loop, whose next step is the sleep before another GET.
C10_KnownStatuses ==
    /\ [](response.request_status = "COMPLETED" => MonitoringSucceeded)
    /\ [](response.request_status \in {"TIMEDOUT", "PENDING", "IN_PROGRESS"} =>
            /\ ambari_pc \in {"monitor_loop", "monitor_sleep"}
            /\ ambari_raised.kind = None)
    /\ [][(/\ response.request_status \in {"TIMEDOUT", "PENDING", "IN_PROGRESS"}
           /\ ambari_pc' # ambari_pc) => ambari_pc' \in {"monitor_sleep", "monitor_get"}]_vars

\* A TIMEDOUT poll at 40 percent was followed by another GET, which found
\* the request COMPLETED at 40 percent.
C10_Witness ==
    /\ response = [request_status |-> "COMPLETED", progress_percent |-> 40]
    /\ gets >= 2
    /\ polls >= 1
    /\ ambari_pc = "change_password"

\* The node tasks that ended, by a return or by an exception.
TaskEnded(n) == task[n].pc \in {"returned", "excepted"}

\* C11: with a budget of n >= 1 tries and no rebuild after a failure, a
\* node task runs the command at most n times; it returns on the first exit
\* code 0, after k <= n runs of which k - 1 failed; and when every run
\* failed it ends, after exactly n runs, with ChefException.
C11_ChefTriesBudget ==
    \A n \in threads :
        (chef_tries >= 1 /\ ~task[n].reformat_on_failure) =>
            /\ task[n].execs <= chef_tries
            /\ task[n].pc = "returned" =>
                  /\ task[n].execs = task[n].failures + 1
                  /\ task[n].execs = chef_tries - task[n].tries_left
            /\ task[n].pc = "loop" => task[n].execs < chef_tries
            /\ (/\ TaskEnded(n)
                /\ task[n].failures = task[n].execs
                /\ task[n].raised # "SSHException") =>
                  /\ task[n].execs = chef_tries
                  /\ task[n].raised = "ChefException"

\* With two tries and no rebuild, one node failed twice and raised
\* ChefException, the other returned on its second run.
C11_Witness ==
    /\ chef_tries = 2
    /\ runlist # None
    /\ nodes = {1, 2}
    /\ task[1].raised = "ChefException" /\ task[1].execs = 2
    /\ task[2].pc = "returned" /\ task[2].execs = 2 /\ task[2].failures = 1

\* The order of the phases of install().
PhaseOrder ==
    <<IF use_existing_openstack THEN "rebuild" ELSE "build", "persist", "converge", "ambari">>

InstallFailed == install_pc \in {"raised", "exited"}

\* C13: after a phase of install() failed, no phase is started; the failed
\* phase is the last one started; and from the return of the provisioning
\* on, no step of install(), the failing one included, removes a cloud
\* resource.
C13_NoLaterPhaseNoRollback ==
    /\ [](InstallFailed => (started = <<>> \/ Len(started) = Len(completed) + 1))
    /\ [][InstallFailed => (started' = started /\ completed' = completed /\ task' = task)]_vars
    /\ [][completed # <<>> => cloud \subseteq cloud']_vars

\* build(), the snapshot and the convergence returned, then the
\* installation raised AmbariException; the stack is still there.
C13_Witness ==
    /\ install_pc = "raised"
    /\ install_raised = "AmbariException"
    /\ completed = <<"build", "persist", "converge">>
    /\ started = <<"build", "persist", "converge", "ambari">>
    /\ cloud = {"stack"}

\* The server tasks of rebuild() that ended, by a return or by an exception.
RbEnded(s) == rb_task[s].pc \in {"returned", "excepted"}

\* C14: rebuild() ends the process only when every server task has ended.
C14_RebuildFailsAfterAllTasksEnded ==
    ost_pc = "exited" => \A s \in rebuild_threads : RbEnded(s)

\* C15: converge() ends the process only when every node task has ended.
C15_ExitOnlyAfterAllTasksEnded ==
    chef_pc = "exited" => \A n \in threads : TaskEnded(n)

\* C20: converge(runlist, nodes) with a runlist starts a task for each node
\* of nodes and for no other node; each task runs the given runlist, never
\* installs the agent and never rebuilds its node; the runtime attributes
\* are not written.
C20_CustomConverge ==
    (runlist # None /\ chef_pc \notin {"idle", "converge"}) =>
        /\ threads = nodes
        /\ ~runtime_recipe
        /\ \A n \in ClusterNodes :
              IF n \in nodes
              THEN /\ task[n].pc # "none"
                   /\ task[n].runlist = runlist
                   /\ task[n].installs = 0
                   /\ task[n].rebuilds = 0
              ELSE task[n] = NoTask

\* converge("custom.json", [node 2]) returned after a failed and a
\* successful run on node 2.
C20_Witness ==
    /\ runlist = "custom.json"
    /\ nodes = {2}
    /\ chef_pc = "done"
    /\ task[2].pc = "returned"
    /\ task[2].failures = 1
    /\ task[2].execs = 2

\* C16: rebuild() on a configuration without a key name or without a
\* private-key path raises ConfigException, and nothing else happens: no
\* server rebuild is triggered, no thread is made and no Node is written.
C16_MissingKeyRaisesFirst ==
    (key_name \in {None, ""} \/ private_key \in {None, ""}) =>
        /\ ost_pc \in {"rebuild", "raised"}
        /\ ost_pc = "raised" => ost_raised.kind = "ConfigException"
        /\ triggered = {}
        /\ rebuild_threads = {}
        /\ node_written = {}
        /\ \A s \in NovaServers : rb_task[s] = NoRbTask /\ nova[s] = NovaIdle

\* rebuild() raised ConfigException with a key name, an empty key path and
\* two servers listed.
C16_Witness ==
    /\ key_name = "key"
    /\ private_key = ""
    /\ Cardinality(rb_servers) = 2
    /\ ost_pc = "raised"
    /\ ost_raised.kind = "ConfigException"

\* The states of a server task in which rebuild_node has ended after its
\* trigger.
RebuildNodeEnded(s) ==
    s \in triggered /\ rb_task[s].pc \in {"unmount", "returned", "excepted"}

C18_HttpErrorRaisesAmbariException ==
    last_request.out = "HttpError" =>
        /\ ambari_pc = "raised"
        /\ ambari_raised.kind = "AmbariException"

\* The requests whose transient failures are retried: the blueprint POST,
\* the host-mapping POST and the progress poll, with their budgets.
RetriedRequests == {"post_blueprint", "post_hostmapping", "monitor_get"}
RequestBudget(req) == IF req = "post_blueprint" THEN blueprint_tries ELSE ambari_retries
RequestIndex(req) ==
    IF req = "post_blueprint" THEN blueprint_i
    ELSE IF req = "post_hostmapping" THEN hostmap_i
    ELSE monitor_i

\* C19: a connection error, a timeout or a body that is not JSON, on the
\* blueprint POST, the host-mapping POST or the progress poll, makes
\* install() raise only on the last try of the budget of that request.
C19_TransientOnlySurfacesOnExhaustion ==
    (/\ last_request.req \in RetriedRequests
     /\ last_request.out \in {"ConnectionError", "Timeout", "NoJson"}
     /\ ambari_pc = "raised") =>
        RequestIndex(last_request.req) = RequestBudget(last_request.req) - 1

\* A Cluster object exists and the run goes on.
ClusterExists ==
    cluster_pc \in {"constructed", "blueprints", "populate", "rb_wait", "provisioned",
                    "persisted", "loaded"}

\* The positions of the roster whose node is primary.
Primaries == {i \in 1..Len(cluster.nodes) : heap[cluster.nodes[i]].primary.v}

\* C21: in every state of a run, of a cluster built from the template or
\* loaded from the snapshot, exactly one node of the roster is primary and
\* master_node is that node.
C21_OnePrimaryIsMaster ==
    ClusterExists =>
        \E i \in 1..Len(cluster.nodes) :
            /\ Primaries = {i}
            /\ cluster.master_node = cluster.nodes[i]

\* The fields the provisioning fills in.
Populated(n) ==
    /\ ~Empty(n.server_id)
    /\ ~Empty(n.internal_ip)
    /\ ~Empty(n.floating_ip)
    /\ ~Empty(n.ram)

\* C22: after build() returned, every Node of the cluster has a non-empty
\* cloud identifier, internal address, floating address and RAM.
C22_BuildPopulatesEveryNode ==
    (~use_existing /\ cluster_pc \in {"provisioned", "persisted"}) =>
        \A i \in 1..Len(cluster.nodes) : Populated(heap[cluster.nodes[i]])

SnapshotFields == DOMAIN NodeDefault \ {"server_id"}
SameNode(a, b) == \A f \in SnapshotFields : PyEq(a[f], b[f])

\* C24: the Cluster loaded from the output of to_json has the ssh_user,
\* private_key, key_name and cluster_name of the Cluster that was written,
\* its nodes in its order, and for every node and the master node the same
\* name, fqdn, internal_ip, floating_ip, ram, role, volume_size, flavor,
\* ambari_group and primary.
C24_SnapshotRoundTrip ==
    cluster_pc = "loaded" =>
        /\ PyEq(cluster.ssh_user, dumped.ssh_user)
        /\ PyEq(cluster.private_key, dumped.private_key)
        /\ PyEq(cluster.key_name, dumped.key_name)
        /\ PyEq(cluster.cluster_name, dumped.cluster_name)
        /\ Len(cluster.nodes) = Len(dumped.nodes)
        /\ \A i \in 1..Len(cluster.nodes) : SameNode(heap[cluster.nodes[i]], dumped.nodes[i])
        /\ SameNode(heap[cluster.master_node], dumped.master_node)

\* A cluster of three populated nodes, the master not the first, was
\* written and loaded; its key name is None.
C24_Witness ==
    /\ cluster_pc = "loaded"
    /\ Len(cluster.nodes) = 3
    /\ ~dumped.nodes[1].primary.v
    /\ \A i \in 1..3 : Populated(dumped.nodes[i])
    /\ dumped.key_name = PyNone
    /\ heap[cluster.nodes[1]].server_id = PyNone

\* C27: the deletion starts one task per listed floating IP and returns
\* only after every task has ended; a 'not found' answer sets no failure
\* flag and lets the deletion return, every other error of a delete sets
\* the flag.
C27_FipDeletion ==
    /\ ost_pc # "fip_list" =>
          \A ip \in 1..MaxFips : (fip_task[ip].pc # "none") <=> (ip \in floating_ip_list)
    /\ ost_pc = "fip_returned" =>
          \A ip \in floating_ip_list :
              /\ fip_task[ip].pc = "ended"
              /\ ~fip_task[ip].alive
              /\ fip_task[ip].out \in {"ok", "NotFound"}
    /\ thread_exception <=>
          \E ip \in 1..MaxFips : fip_task[ip].out \in {"ConnectFailure", "Conflict"}

\* The deletion of two addresses returned, one of them was not found.
C27_Witness ==
    /\ ost_pc = "fip_returned"
    /\ \E a, b \in floating_ip_list :
          /\ fip_task[a].out = "NotFound"
          /\ fip_task[b].out = "ok"

\* C25: with rebuild-on-failure enabled, a node is rebuilt once after every
\* failed run that left tries, before the next run; no rebuild follows the
\* run that exhausts the budget nor a run that succeeded; with it disabled
\* no rebuild is issued.
C25_RebuildAfterFailure ==
    \A n \in threads :
        LET t == task[n] IN
        IF t.reformat_on_failure
        THEN /\ t.pc = "rebuild" => (t.tries_left # 0 /\ t.rebuilds = t.failures - 1)
             /\ t.pc \in {"loop", "install", "knife", "returned"} => t.rebuilds = t.failures
             /\ t.raised = "ChefException" =>
                   (t.tries_left = 0 /\ t.rebuilds = t.failures - 1)
             /\ t.pc = "returned" => t.rebuilds = t.execs - 1
        ELSE t.rebuilds = 0

\* With two tries, one node was rebuilt after its first failure and raised
\* ChefException on the second, the other returned on its first run.
C25_Witness ==
    /\ chef_tries = 2
    /\ runlist = None
    /\ \E a, b \in threads :
          /\ task[a].raised = "ChefException"
          /\ task[a].failures = 2
          /\ task[a].rebuilds = 1
          /\ task[b].pc = "returned"
          /\ task[b].rebuilds = 0

\* The install of the agent failed in the task of node n.
AgentInstallFailed(n) ==
    /\ task[n].pc = "excepted"
    /\ task[n].installs = task[n].execs + 1

\* C26: with the install of the agent enabled, every run of the command
\* is preceded by an install; a failed install ends the task without a run
\* of the command and without another try, and converge() does not return:
\* the process is ended.
C26_InstallBeforeEveryAttempt ==
    /\ [](\A n \in threads :
            LET t == task[n] IN
            IF t.install_chef
            THEN /\ t.pc = "knife" => t.installs = t.execs + 1
                 /\ t.pc \in {"loop", "rebuild", "returned"} => t.installs = t.execs
                 /\ AgentInstallFailed(n) =>
                       /\ t.raised \in {"ShellException", "SSHException"}
                       /\ chef_thread_exception
                       /\ chef_pc # "done"
            ELSE t.installs = 0)
    /\ [][\A n \in threads :
            AgentInstallFailed(n) =>
                /\ task'[n].pc = "excepted"
                /\ task'[n].execs = task[n].execs
                /\ task'[n].installs = task[n].installs
                /\ task'[n].tries_left = task[n].tries_left]_vars

\* The second install of a node failed after one failed run and a rebuild,
\* and the process was ended.
C26_Witness ==
    /\ chef_pc = "exited"
    /\ \E n \in threads :
          /\ AgentInstallFailed(n)
          /\ task[n].installs = 2
          /\ task[n].execs = 1
          /\ task[n].rebuilds = 1

\* A step of the check loop of the cleanup.
CheckLoopStep ==
    /\ ost_pc = "c_check"
    /\ <<ost_pc, check_i, ost_raised, cleanup_runs>>' # <<ost_pc, check_i, ost_raised, cleanup_runs>>

\* C28: the cleanup checks the floating IPs, servers and volumes at most
\* `retries` times; it succeeds at the first check that finds none of them,
\* goes to the next check when one is left and checks are left, and raises
\* the conflict error with the listings exactly when the last check found
\* one left.
C28_CheckLoop ==
    /\ [](check_i <= ost_retries - 1)
    /\ [][CheckLoopStep =>
            IF floatingips = {} /\ servers = 0 /\ volumes = 0
            THEN /\ check_i' = check_i
                 /\ ost_raised'.kind # "ExistingNonRedstackResourcesException"
                 /\ \/ ost_pc' \in {"b_create", "harness"}
                    \/ cleanup_from = "failed" /\ ost_raised'.kind = "HeatException"
            ELSE IF check_i = ost_retries - 1
            THEN /\ ost_pc' = "raised"
                 /\ ost_raised'.kind = "ExistingNonRedstackResourcesException"
                 /\ ost_raised'.msg = <<"Non-Redstack resources exist", floatingips,
                                        servers, volumes>>
            ELSE /\ ost_pc' = "c_check"
                 /\ check_i' = check_i + 1
                 /\ ost_raised' = ost_raised]_vars

\* The stack of the deployment was deleted and a volume outlasted the five
\* checks: the conflict error is raised at the last one.
C28_Witness ==
    /\ ost_pc = "raised"
    /\ ost_raised.kind = "ExistingNonRedstackResourcesException"
    /\ check_i = ost_retries - 1
    /\ delete_calls # {}
    /\ del_stack.stack_status = "DELETE_COMPLETE"
    /\ volumes > 0

\* C29: the destroy step polls while the stack is DELETE_IN_PROGRESS,
\* returns exactly when the first other status is DELETE_COMPLETE and
\* raises HeatException on every other status; it is run at most three
\* times, and again only after that HeatException.
C29_DestroyStep ==
    /\ [](destroy_i <= destroy_tries - 1)
    /\ [][(ost_pc = "d_get" /\ ost_pc' # "d_get") =>
            LET status == stacks[stack_list[1]].stack_status IN
            IF status = "DELETE_IN_PROGRESS"
            THEN ost_pc' = "d_sleep" /\ destroy_i' = destroy_i
            ELSE IF status = "DELETE_COMPLETE"
            THEN ost_pc' = "c_check" /\ ost_raised' = ost_raised
            ELSE IF destroy_i < destroy_tries - 1
            THEN ost_pc' = "d_fips" /\ destroy_i' = destroy_i + 1
            ELSE ost_pc' = "raised" /\ ost_raised'.kind = "HeatException"]_vars
    /\ [][(ost_pc' = "d_fips" /\ ost_pc # "d_fips") =>
            \/ ost_pc = "c_list" /\ destroy_i' = 0
            \/ /\ ost_pc = "d_get"
               /\ stacks[stack_list[1]].stack_status
                      \notin {"DELETE_IN_PROGRESS", "DELETE_COMPLETE"}]_vars

\* The third run of the destroy step ended on DELETE_FAILED and its
\* HeatException left the cleanup.
C29_Witness ==
    /\ ost_pc = "raised"
    /\ ost_raised.kind = "HeatException"
    /\ destroy_i = destroy_tries - 1
    /\ del_stack.stack_status = "DELETE_FAILED"

\* The last request returned a response below 400.
Returned(req) == last_request.req = req /\ last_request.out \in {"ok", "NoJson"}

\* The last request is a try of req that ended on an error retry() retries.
Retrying(req) == last_request.req = req /\ last_request.out \in {"ConnectionError", "Timeout"}

\* C30: the host-mapping POST is sent only after the blueprint POST
\* returned; the tracking URL is polled only after the host-mapping POST
\* returned; the password change is sent only after a poll that read
\* COMPLETED; the two repository PUTs are sent only with
\* define_custom_repos, before the blueprint POST.
C30_RequestOrder ==
    /\ ambari_pc \in {"put_stack", "put_utils"} => define_custom_repos
    /\ last_request.req \in {"put_stack", "put_utils"} => define_custom_repos
    /\ ambari_pc = "put_stack" => last_request = NoRequest
    /\ ambari_pc = "put_utils" => Returned("put_stack")
    /\ ambari_pc = "post_blueprint" =>
          \/ Retrying("post_blueprint")
          \/ IF define_custom_repos THEN Returned("put_utils") ELSE last_request = NoRequest
    /\ ambari_pc = "post_hostmapping" =>
          Returned("post_blueprint") \/ Retrying("post_hostmapping")
    /\ ambari_pc \in {"monitor_loop", "monitor_sleep", "monitor_get"} =>
          Returned("post_hostmapping") \/ last_request.req = "monitor_get"
    /\ ambari_pc = "monitor_get" => response_dict = "href"
    /\ ambari_pc = "change_password" =>
          \/ Returned("monitor_get") /\ response.request_status = "COMPLETED"
          \/ Retrying("change_password")

\* With custom repositories, the install went through every request: the
\* password change returned after two polls.
C30_Witness ==
    /\ define_custom_repos
    /\ ambari_pc = "mysql_password"
    /\ Returned("change_password")
    /\ polls = 2

\* The provisioning has returned and the run goes on in the same process.
AfterProvisioning ==
    cluster_pc \in {"provisioned", "persisted", "loaded", "converge", "converged"}

KnownServers ==
    {k \in 1..Len(server_list) : \E i \in 1..Len(cluster.nodes) :
        PyEq(heap[cluster.nodes[i]].name, Py("str", server_list[k].name))}

\* C32: rebuild() starts a task for each listed server that has the name
\* of a known Node and for no other server, and a listed server of another
\* name does not make the rebuild fail.
C32_TasksForKnownServers ==
    cluster_pc \in {"rb_wait", "exited"} =>
        /\ DOMAIN server_task = KnownServers
        /\ \A k \in DOMAIN server_task :
              server_task[k].pc = "excepted" => k \in KnownServers

\* C33: a coordinator never reports success after a failure of one of its
\* tasks: converge() logs 'Nodes successfully converged' and rebuild()
\* reaches the population of the nodes only if no task of the phase raised.
C33_NoSuccessAfterTaskFailure ==
    /\ chef_pc = "done" => \A n \in threads : task[n].raised = None
    /\ ost_pc \in {"rb_populate", "done"} =>
          \A s \in rebuild_threads : rb_task[s].raised = None

\* The coordinator of converge() reads the flag after a scan that found no
\* thread alive, and a task has raised.
C33_Witness ==
    /\ chef_pc = "check"
    /\ threads_alive = 0
    /\ \E n \in threads : task[n].raised # None

\* C34: on the build path the convergence starts only after a creation
\* whose polling ended on the status CREATE_COMPLETE.
C34_ConvergeOnlyAfterCreateComplete ==
    [][(cluster_pc = "persisted" /\ cluster_pc' = "converge" /\ ~use_existing)
          => stack_status = "CREATE_COMPLETE"]_vars

\* Nova has finished the rebuild of server s, the server is ACTIVE again,
\* and no get of the task has returned the status REBUILD.
MissedRebuild(s) ==
    /\ s \in triggered
    /\ nova[s] = [status |-> "ACTIVE", phase |-> "finished"]
    /\ ~rb_task[s].seen

\* C35: rebuild_node returns only after a get that observed REBUILD and a
\* later get that observed ACTIVE. A rebuild that went through REBUILD and
\* back to ACTIVE between two gets is never recognised: the task stays in
\* its first loop and ends only with the RebuildException of the deadline,
\* the server being ACTIVE.
C35_MissedRebuildNeverReturns ==
    /\ [](\A s \in triggered :
            /\ rb_task[s].pc \in {"unmount", "returned"} =>
                  rb_task[s].seen /\ rb_task[s].observed = "ACTIVE"
            /\ MissedRebuild(s) => rb_task[s].pc \in {"get", "poll1", "excepted"}
            /\ (MissedRebuild(s) /\ rb_task[s].pc = "excepted") =>
                  /\ rb_task[s].raised = "RebuildException"
                  /\ rb_task[s].out = "no_response"
                  /\ now - rb_task[s].start > rebuild_deadline)
    /\ [][\A s \in triggered : MissedRebuild(s) => MissedRebuild(s)']_vars

\* The rebuild of a server was missed and its task raised at the deadline.
C35_Witness ==
    \E s \in triggered :
        /\ MissedRebuild(s)
        /\ rb_task[s].pc = "excepted"
        /\ rb_task[s].observed = "ACTIVE"

\* Every run of the command of node n so far has exited with a status
\* other than 0.
AlwaysFailed(n) == task[n].execs > 0 /\ task[n].failures = task[n].execs

\* C36: with a budget of 0 or less the test of the exhaustion never fires:
\* no task raises ChefException, a task whose command fails every time goes
\* back to the head of its loop after every run, and converge() does not
\* complete while there is such a task.
C36_NoExhaustionBelowOne ==
    chef_tries <= 0 =>
        /\ \A n \in threads :
              /\ task[n].raised # "ChefException"
              /\ task[n].pc \in {"loop", "install", "knife", "rebuild"} =>
                    task[n].tries_left = chef_tries - task[n].execs
                    - (IF task[n].pc \in {"install", "knife"} THEN 1 ELSE 0)
              /\ AlwaysFailed(n) => task[n].pc # "returned"
        /\ chef_pc = "done" => \A n \in threads : ~AlwaysFailed(n)

\* With a budget of 0 a task has run its command MaxExecs times, every run
\* failed, and it is at the head of its loop again.
C36_Witness ==
    /\ chef_tries = 0
    /\ \E n \in threads :
          /\ task[n].pc = "loop"
          /\ task[n].execs = MaxExecs
          /\ AlwaysFailed(n)
          /\ task[n].tries_left = -MaxExecs

\* install() is in the loop of _start_install that polls the request.
Monitoring == ambari_pc \in {"monitor_loop", "monitor_sleep", "monitor_get"}

\* The statuses _monitor_request names.
NamedStatuses == {"TIMEDOUT", "COMPLETED", "PENDING", "IN_PROGRESS"}

\* C37: the polling of the install request has no bound of its own. Every
\* poll starts with a fresh retry budget; a poll that reads TIMEDOUT,
\* PENDING or IN_PROGRESS is followed by another poll; and the loop is left
\* only on a poll that reads COMPLETED, on an unnamed status below 95
\* percent, on a retryable error at the last try of a poll, or on an error
\* that is not retried.
C37_PollingUnbounded ==
    /\ [][(ambari_pc = "monitor_loop" /\ ambari_pc' = "monitor_sleep") => monitor_i' = 0]_vars
    /\ [][(/\ ambari_pc = "monitor_get"
           /\ last_request'.out = "ok"
           /\ response'.request_status \in {"TIMEDOUT", "PENDING", "IN_PROGRESS"})
             => (ambari_pc' = "monitor_loop" /\ polls' = polls + 1)]_vars
    /\ [][(Monitoring /\ ~Monitoring') =>
             \/ /\ ambari_pc' = "change_password"
                /\ response'.request_status = "COMPLETED"
             \/ /\ ambari_pc' = "raised"
                /\ ambari_raised'.kind = "AmbariException"
                /\ response'.request_status \notin NamedStatuses
                /\ response'.progress_percent < 95
             \/ /\ ambari_pc' = "raised"
                /\ ambari_raised'.kind \in {"ConnectionError", "Timeout", "KeyError"}
                /\ monitor_i = ambari_retries - 1
             \/ /\ ambari_pc' = "raised"
                /\ ambari_raised'.kind = "TypeError"]_vars

\* MaxPolls polls have returned True, and between them more gets failed
\* and were retried than one budget allows.
C37_Witness ==
    /\ ambari_pc = "monitor_loop"
    /\ polls = MaxPolls
    /\ gets - polls >= ambari_retries
    /\ response.request_status \in {"TIMEDOUT", "PENDING", "IN_PROGRESS"}

\* C38: retry() with tries <= 0 never invokes the operation, never sleeps
\* and raises nothing; it returns None, which is also what it returns
\* after a successful invocation of an operation that returned None.
C38_NoTriesReturnsNone ==
    /\ tries <= 0 =>
          /\ history = <<>>
          /\ sleeps = 0
          /\ retry_pc \in {"loop", "returned"}
          /\ retry_pc = "returned" => retry_out = [type |-> "return", val |-> None]
    /\ (/\ tries >= 1
        /\ retry_pc = "returned"
        /\ history[Len(history)].val = None)
          => retry_out = [type |-> "return", val |-> None]

\* A retry with a negative number of tries has returned.
C38_Witness ==
    /\ tries = -1
    /\ retry_pc = "returned"
    /\ retry_out.val = None
    /\ history = <<>>

\* The last request was a host-mapping POST that ended in `outs`.
LastHostmapPost(outs) ==
    last_request.req = "post_hostmapping" /\ last_request.out \in outs

\* C39: the host-mapping POST is sent at most 5 times; it is sent again
\* only after a connection error or a timeout of the send before; it is
\* not sent again after a response, of a status below 400 or not; and a
\* send the server accepted but whose response was lost, with a try left,
\* is followed by another send.
C39_HostmappingPosts ==
    /\ [](hostmap_posts.sent <= 5)
    /\ [][(hostmap_posts'.sent # hostmap_posts.sent) =>
             /\ hostmap_posts'.sent = hostmap_posts.sent + 1
             /\ ambari_pc = "post_hostmapping"
             /\ hostmap_posts.sent > 0 => LastHostmapPost({"ConnectionError", "Timeout"})]_vars
    /\ [](LastHostmapPost({"ok", "NoJson", "HttpError"}) => ambari_pc # "post_hostmapping")
    /\ [](ambari_pc = "post_hostmapping" => hostmap_posts.sent = hostmap_i)
    /\ [][(/\ hostmap_posts'.accepted > hostmap_posts.accepted
           /\ last_request'.out \in {"ConnectionError", "Timeout"}
           /\ hostmap_posts'.sent < 5)
             => (ambari_pc' = "post_hostmapping" /\ hostmap_i' = hostmap_posts'.sent)]_vars

\* The server has accepted the mapping twice: the response to the first
\* send was lost, the second send was answered.
C39_Witness ==
    /\ hostmap_posts = [sent |-> 2, accepted |-> 2]
    /\ LastHostmapPost({"ok"})
    /\ ambari_pc = "monitor_loop"

\* The objects of the roster, and what a read of master_node.floating_ip
\* gives after the assignment of line 422 to the Node id.
RosterObjects == {cluster.nodes[i] : i \in 1..Len(cluster.nodes)}
ReadAfterWrite(id, v) ==
    [heap EXCEPT ![id].floating_ip = v][cluster.master_node].floating_ip

\* C40: in a Cluster built from the template master_node is the primary
\* Node of the roster itself, so the identifiers the provisioning writes to
\* that Node are what a later phase reads through master_node. In a
\* Cluster loaded from cluster.json master_node is one more Node with the
\* values of the snapshot: an address written to the primary Node of the
\* roster is not read through master_node.
C40_MasterNodeAliasing ==
    /\ (/\ cluster_pc \in {"constructed", "blueprints", "populate", "rb_wait",
                           "provisioned", "persisted"}
        /\ cluster.master_node # 0)
          => /\ cluster.master_node \in RosterObjects
             /\ heap[cluster.master_node].primary.v
             /\ ReadAfterWrite(cluster.master_node, Py("str", "172.0.new"))
                   = Py("str", "172.0.new")
    /\ cluster_pc = "loaded"
          => /\ cluster.master_node \notin RosterObjects
             /\ \E id \in RosterObjects : heap[id].primary.v
             /\ \A id \in RosterObjects :
                   /\ SameNode(heap[id], heap[cluster.master_node]) <=> heap[id].primary.v
                   /\ ReadAfterWrite(id, Py("str", "172.0.new"))
                         = heap[cluster.master_node].floating_ip
    /\ later.op = "ambari"
          => /\ later.node = cluster.master_node
             /\ later.read = heap[cluster.master_node].floating_ip
             /\ \A k \in 1..Len(server_list) :
                   PyEq(heap[cluster.master_node].name, Py("str", server_list[k].name))
                      => PyEq(later.read, ServerField(server_list[k].name, "floating_ip"))

\* The install of a standalone phase has read the address of the server
\* through the master_node of a loaded Cluster, a Node outside the roster.
C40_Witness ==
    /\ later.op = "ambari"
    /\ later.node \notin RosterObjects
    /\ ~Empty(later.read)

====
